---- MODULE Spec2Model ----
(***************************************************************************)
(* The batching client of terraform-provider-cscdm: PerformRecordAction /  *)
(* enqueue, the flush loop, editZones with its per-zone goroutines, the    *)
(* result and error routing, the zone cache with its single-flight group,  *)
(* and Stop.                                                               *)
(*                                                                         *)
(* Go strings are sequences of tokens, ":" being a token of its own, so    *)
(* that genId (Sprintf "%s:%s:%s:%s") and strings.Split(id, ":") are       *)
(* computed and not assumed.                                               *)
(***************************************************************************)
EXTENDS Integers, Sequences, FiniteSets, TLC

\* ------------------------------------------------------------------ bounds

NumCallers == 7
NumReaders == 2
NumStoppers == 2
MaxConflicts == 1
MaxPending == 1

Callers == 1..NumCallers
Readers == 1..NumReaders
Stoppers == 1..NumStoppers

\* ------------------------------------------------------------------ data

Colon == ":"
Empty == << >>
None == "none"

Z1 == <<"z1">>
Z2 == <<"z2">>
Zones == {Z1, Z2}

TypeA == <<"A">>
TypeSRV == <<"SRV">>

mkAction(zone, recordType, action, currentKey, currentValue, newKey, newValue) ==
  [ZoneName |-> zone, RecordType |-> recordType, Action |-> action,
   CurrentKey |-> currentKey, CurrentValue |-> currentValue,
   NewKey |-> newKey, NewValue |-> newValue]

\* The RecordAction each caller passes to PerformRecordAction.  The
\* correlation keys are pairwise distinct; callers 1 and 2 add two records
\* of the same type and key (a round-robin pair), caller 3 purges a record
\* of the other zone whose value is an IPv6-like text holding colons,
\* caller 4 purges a record of Z1 and caller 5 adds to Z1 a record of a type
\* that GetRecordsByType does not support.  Callers 6 and 7 add to Z2, which
\* holds the record old = fe80::1: caller 6 another record of the key old,
\* caller 7 a record whose key holds a colon, old:fe80 = :1.
ActionOf(c) ==
  CASE c = 1 -> mkAction(Z1, TypeA, <<"ADD">>, Empty, Empty, <<"www">>, <<"v1">>)
    [] c = 2 -> mkAction(Z1, TypeA, <<"ADD">>, Empty, Empty, <<"www">>, <<"v2">>)
    [] c = 3 -> mkAction(Z2, TypeA, <<"PURGE">>, <<"old">>, <<"fe80", Colon, Colon, "1">>, Empty, Empty)
    [] c = 4 -> mkAction(Z1, TypeA, <<"PURGE">>, <<"gone">>, <<"v0">>, Empty, Empty)
    [] c = 5 -> mkAction(Z1, TypeSRV, <<"ADD">>, Empty, Empty, <<"_sip">>, <<"t1">>)
    [] c = 6 -> mkAction(Z2, TypeA, <<"ADD">>, Empty, Empty, <<"old">>, <<"v9">>)
    [] c = 7 -> mkAction(Z2, TypeA, <<"ADD">>, Empty, Empty,
                         <<"old", Colon, "fe80">>, <<Colon, "1">>)
    [] OTHER -> mkAction(IF c % 2 = 0 THEN Z1 ELSE Z2, TypeA, <<"ADD">>, Empty, Empty,
                         <<"h", ToString(c)>>, <<"v1">>)

KeyId(ze) ==
  IF ze.Action = <<"ADD">> \/ ze.Action = <<"EDIT">> THEN ze.NewKey ELSE ze.CurrentKey

ValueId(ze) ==
  IF ze.Action = <<"ADD">> \/ ze.Action = <<"EDIT">> THEN ze.NewValue ELSE ze.CurrentValue

genId(zone, recordType, key, value) ==
  zone \o <<Colon>> \o recordType \o <<Colon>> \o key \o <<Colon>> \o value

RECURSIVE Split(_)
Split(s) ==
  IF \A i \in 1..Len(s) : s[i] # Colon
  THEN <<s>>
  ELSE LET i == CHOOSE k \in 1..Len(s) : s[k] = Colon /\ \A j \in 1..(k - 1) : s[j] # Colon
       IN  <<SubSeq(s, 1, i - 1)>> \o Split(SubSeq(s, i + 1, Len(s)))

ZoneEditOf(ra) ==
  [RecordType |-> ra.RecordType, Action |-> ra.Action,
   CurrentKey |-> ra.CurrentKey, CurrentValue |-> ra.CurrentValue,
   NewKey |-> ra.NewKey, NewValue |-> ra.NewValue]

IdOf(ra) == genId(ra.ZoneName, ra.RecordType, KeyId(ra), ValueId(ra))

ZoneRecord(recordType, key, value) == [Type |-> recordType, Key |-> key, Value |-> value]

\* a channel of capacity 1: its buffer and whether it has been closed
NewChan == [buf |-> Empty, closed |-> FALSE, bad |-> FALSE]

\* a *ZoneRecord sent on a return channel: nil, or a record of a snapshot
NilRecord == [kind |-> "nil"]
RecordPtr(r) == [kind |-> "record", rec |-> r]

\* what PerformRecordAction has returned so far
NoResult == [kind |-> "none"]

\* (*Zone, error) values: no value yet, a snapshot, an error
NoZone == [kind |-> "none"]
ZoneSnap(ver, recs) == [kind |-> "zone", ver |-> ver, recs |-> recs]
ZoneErr == [kind |-> "err"]

NotIssued == [inv |-> 0, f |-> 0]

SeqToSet(s) == {s[i] : i \in 1..Len(s)}

\* goroutines that run GetZone / FetchZone: the readers, and one per zone
\* task of a flush (a negative number)
ZoneIdx(z) == IF z = Z1 THEN 1 ELSE 2
TaskThread(z) == 0 - ZoneIdx(z)
TaskThreads == {TaskThread(z) : z \in Zones}
Threads == Readers \cup TaskThreads

\* ------------------------------------------------------------------ state

VARIABLES
  callerPc,            \* PerformRecordAction: "idle", "waiting" (select), "done"
  callerResult,        \* what PerformRecordAction returned
  retCh, errCh,        \* returnChan / errorChan of each call
  recordActionQueue,
  returnChannels, errorChannels,   \* id -> the caller whose channel is registered
  batchMutex,          \* "free", or "flush" while editZones holds it
  flushTrigger,        \* number of signals buffered in the channel (capacity 1)
  flushTimer,          \* "running", "fired", "stopped"
  flushLoopStopChan,   \* number of close() calls made on it
  lockPc,              \* per goroutine: how many of its Lock/Unlock calls it has made
  stopOnce,            \* sync.Once: "new", "running" (f executing), "done"
  loopPc,              \* "select", "wait", "clear", "stopped"
  flushErr,            \* the messages of the error the last flush() returned (none: nil)
  taskPc, payload, conflicts, pendings, recordsByType, taskZone, errChan,
  zoneRecs, zoneVer, openEdits,    \* the backend
  zoneCache, zoneGroup,
  gzPc, gzSnap, gzCall,
  stopPc,
  \* history
  retWrites, errWrites,   \* values sent on each caller's return / error channel
  posts,                  \* POSTs the backend accepted (201) in the current flush, by zone
  cancels,                \* DELETEs of an edit sent in the current flush, by zone
  taskOutcome,            \* how the zone's edit ended in the current flush
  invalidatedVer,         \* the zone's version when a flush last invalidated it
  fetches,                \* GET zones/<zone> requests made, by zone
  gzIssued                \* invalidatedVer and fetches when the GetZone call was made

callerVars == <<callerPc, callerResult, retCh, errCh>>
queueVars == <<recordActionQueue, returnChannels, errorChannels, batchMutex>>
loopVars == <<flushTrigger, flushTimer, flushLoopStopChan, stopOnce, lockPc, loopPc, flushErr, stopPc>>
taskVars == <<taskPc, payload, conflicts, pendings, recordsByType, taskZone, errChan>>
backendVars == <<zoneRecs, zoneVer, openEdits>>
cacheVars == <<zoneCache, zoneGroup, gzPc, gzSnap, gzCall>>
histVars == <<retWrites, errWrites, posts, cancels, taskOutcome, invalidatedVer, fetches, gzIssued>>

vars == <<callerVars, queueVars, loopVars, taskVars, backendVars, cacheVars, histVars>>

EmptyMap == [x \in {} |-> 0]

\* ------------------------------------------------------------------ locks

\* The calls that each goroutine makes on the three mutexes of the Client,
\* in the order of its code: batchMutex, returnChannelsMutex and the
\* read/write cacheMutex.
Op(op, m) == [op |-> op, m |-> m]

\* an enqueue that would take the slot-map lock first
enqueueOpsSlotsFirst ==
  <<Op("lock", "ret"), Op("lock", "batch"), Op("unlock", "batch"), Op("unlock", "ret")>>

\* enqueue: Lock batchMutex, Lock returnChannelsMutex; the deferred unlocks
\* run last-in first-out
enqueueOps ==
  <<Op("lock", "batch"), Op("lock", "ret"), Op("unlock", "ret"), Op("unlock", "batch")>>

\* flush: editZones locks batchMutex, starts the zone goroutines, waits for
\* them, and its deferred calls unlock batchMutex and then run clear(), which
\* takes both mutexes as enqueue does
flushOps ==
  <<Op("lock", "batch"), Op("fork", "tasks"), Op("join", "tasks"), Op("unlock", "batch"),
    Op("lock", "batch"), Op("lock", "ret"), Op("unlock", "ret"), Op("unlock", "batch")>>

\* GetZone: the look in the cache under the read lock, then the store of
\* FetchZone and the store of fn, each under the write lock
getZoneOps ==
  <<Op("rlock", "cache"), Op("runlock", "cache"),
    Op("lock", "cache"), Op("unlock", "cache"),
    Op("lock", "cache"), Op("unlock", "cache")>>

\* a zone goroutine: invalidateZoneCache, returnRecord of the PURGE loop,
\* GetZone, returnRecord of the routing loop, and a routing of an error; a
\* goroutine that fails or has nothing to do at a stage leaves its calls out
taskOps ==
  <<Op("lock", "cache"), Op("unlock", "cache"),
    Op("lock", "ret"), Op("unlock", "ret")>>
  \o getZoneOps
  \o <<Op("lock", "ret"), Op("unlock", "ret"),
       Op("lock", "ret"), Op("unlock", "ret")>>

LockTasks == {"task1", "task2"}
LockThreads == {"enqueue1", "enqueue2", "flush", "getzone"} \cup LockTasks

OpsOf(t) ==
  CASE t \in {"enqueue1", "enqueue2"} -> enqueueOps
    [] t = "flush" -> flushOps
    [] t = "getzone" -> getZoneOps
    [] OTHER -> taskOps

\* the mutexes a goroutine holds after its first n calls, by mode
HeldAfter(t, n, modes) ==
  {m \in {"batch", "ret", "cache"} :
     \E i \in 1..n :
       /\ OpsOf(t)[i].m = m /\ OpsOf(t)[i].op \in modes
       /\ \A j \in (i + 1)..n : OpsOf(t)[j].m # m}

Held(t) == HeldAfter(t, lockPc[t], {"lock", "rlock"})
HeldExclusive(t) == HeldAfter(t, lockPc[t], {"lock"})

Init ==
  /\ callerPc = [c \in Callers |-> "idle"]
  /\ callerResult = [c \in Callers |-> NoResult]
  /\ retCh = [c \in Callers |-> NewChan]
  /\ errCh = [c \in Callers |-> NewChan]
  /\ recordActionQueue = Empty
  /\ returnChannels = EmptyMap
  /\ errorChannels = EmptyMap
  /\ batchMutex = "free"
  /\ flushTrigger = 0
  /\ flushTimer = "running"
  /\ flushLoopStopChan = 0
  /\ stopOnce = "new"
  /\ lockPc = [t \in LockThreads |-> IF t \in LockTasks THEN Len(taskOps) ELSE 0]
  /\ loopPc = "select"
  /\ flushErr = Empty
  /\ taskPc = [z \in Zones |-> None]
  /\ payload = [z \in Zones |-> Empty]
  /\ conflicts = [z \in Zones |-> 0]
  /\ pendings = [z \in Zones |-> 0]
  /\ recordsByType = [z \in Zones |-> EmptyMap]
  /\ taskZone = [z \in Zones |-> NoZone]
  /\ errChan = Empty
  /\ zoneRecs = [z \in Zones |->
        IF z = Z2 THEN <<ZoneRecord(TypeA, <<"old">>, <<"fe80", Colon, Colon, "1">>)>> ELSE Empty]
  /\ zoneVer = [z \in Zones |-> 0]
  /\ openEdits = [z \in Zones |-> Empty]
  /\ zoneCache = EmptyMap
  /\ zoneGroup = [z \in Zones |-> 0]
  /\ gzPc = [t \in Threads |-> None]
  /\ gzSnap = [t \in Threads |-> NoZone]
  /\ gzCall = [t \in Threads |-> 0]
  /\ stopPc = [s \in Stoppers |-> "idle"]
  /\ retWrites = [c \in Callers |-> 0]
  /\ errWrites = [c \in Callers |-> 0]
  /\ posts = [z \in Zones |-> 0]
  /\ cancels = [z \in Zones |-> 0]
  /\ invalidatedVer = [z \in Zones |-> 0]
  /\ fetches = [z \in Zones |-> 0]
  /\ taskOutcome = [z \in Zones |-> None]
  /\ gzIssued = [t \in Threads |-> NotIssued]

\* ------------------------------------------------------------------ enqueue

\* triggerFlush: a non-blocking send on the trigger channel
\* a trigger channel that takes every signal sent to it
triggerFlushQueues(n) == n + 1

triggerFlush(n) == IF n < 1 THEN n + 1 ELSE n

\* PerformRecordAction up to its select: the two channels are made and
\* enqueue runs, under batchMutex and returnChannelsMutex.
Enqueue(c) ==
  /\ callerPc[c] = "idle"
  /\ batchMutex = "free"
  /\ LET ra == ActionOf(c)
         id == genId(ra.ZoneName, ra.RecordType, KeyId(ra), ValueId(ra))
     IN  /\ recordActionQueue' = Append(recordActionQueue, ra)
         /\ returnChannels' = (id :> c) @@ returnChannels
         /\ errorChannels' = (id :> c) @@ errorChannels
  /\ flushTrigger' = triggerFlush(flushTrigger)
  /\ callerPc' = [callerPc EXCEPT ![c] = "waiting"]
  /\ UNCHANGED <<callerResult, retCh, errCh, batchMutex>>
  /\ UNCHANGED <<flushTimer, flushLoopStopChan, stopOnce, lockPc, loopPc, flushErr, stopPc>>
  /\ UNCHANGED <<taskVars, backendVars, cacheVars, histVars>>

\* a 'channel closed' error that names the new key of the action, whatever
\* the action
ErrClosedNewKey(which, ra) ==
  [msg |-> "channel closed", which |-> which,
   recordType |-> ra.RecordType, key |-> ra.NewKey, zone |-> ra.ZoneName]

ErrClosed(which, ra) ==
  [msg |-> "channel closed", which |-> which,
   recordType |-> ra.RecordType, key |-> KeyId(ra), zone |-> ra.ZoneName]

\* the select of PerformRecordAction: a case is ready when its channel holds
\* a value or is closed; Go picks any ready case
RecvReturn(c) ==
  /\ callerPc[c] = "waiting"
  /\ retCh[c].buf # Empty \/ retCh[c].closed
  /\ IF retCh[c].buf # Empty
     THEN /\ callerResult' = [callerResult EXCEPT ![c] = [kind |-> "ok", record |-> retCh[c].buf[1]]]
          /\ retCh' = [retCh EXCEPT ![c].buf = Empty]
     ELSE /\ callerResult' = [callerResult EXCEPT ![c] =
                                [kind |-> "error", err |-> ErrClosed("return", ActionOf(c))]]
          /\ retCh' = retCh
  /\ callerPc' = [callerPc EXCEPT ![c] = "done"]
  /\ UNCHANGED <<errCh, queueVars, loopVars, taskVars, backendVars, cacheVars, histVars>>

RecvError(c) ==
  /\ callerPc[c] = "waiting"
  /\ errCh[c].buf # Empty \/ errCh[c].closed
  /\ IF errCh[c].buf # Empty
     THEN /\ callerResult' = [callerResult EXCEPT ![c] = [kind |-> "error", err |-> errCh[c].buf[1]]]
          /\ errCh' = [errCh EXCEPT ![c].buf = Empty]
     ELSE /\ callerResult' = [callerResult EXCEPT ![c] =
                                [kind |-> "error", err |-> ErrClosed("error", ActionOf(c))]]
          /\ errCh' = errCh
  /\ callerPc' = [callerPc EXCEPT ![c] = "done"]
  /\ UNCHANGED <<retCh, queueVars, loopVars, taskVars, backendVars, cacheVars, histVars>>

\* ------------------------------------------------------------------ routing

\* ch <- v on a channel of capacity 1, then close(ch).  A send on a closed
\* channel and a close of a closed channel panic, a send on a full channel
\* blocks for ever: each is recorded in the channel as bad.
Send(ch, v) ==
  IF ch.closed \/ ch.buf # Empty THEN [ch EXCEPT !.bad = TRUE]
  ELSE [ch EXCEPT !.buf = <<v>>]

Close(ch) ==
  IF ch.closed THEN [ch EXCEPT !.bad = TRUE] ELSE [ch EXCEPT !.closed = TRUE]

MapRemove(m, k) == [x \in DOMAIN m \ {k} |-> m[x]]

\* The maps and channels the routing functions work on, as one value R:
\* rc / ec are returnChannels / errorChannels, ret / err the channels,
\* rw / ew the numbers of values written to each caller's channels.
Router == [rc |-> returnChannels, ec |-> errorChannels, ret |-> retCh, err |-> errCh,
           rw |-> retWrites, ew |-> errWrites]

ErrNoReturnChannel(id) == [msg |-> "failed to get return channel", id |-> id]
ErrNoErrorChannel(id) == [msg |-> "failed to get error channel", id |-> id]

\* each routing function yields [R |-> the maps afterwards, e |-> its error
\* result as a sequence: empty for nil]
\* a routing of a record that leaves the channel in returnChannels
returnRecordKeepsEntry(R, zone, recordType, key, value, record) ==
  LET id == genId(zone, recordType, key, value)
  IN  IF id \in DOMAIN R.rc
      THEN LET c == R.rc[id]
           IN  [R |-> [R EXCEPT !.ret[c] = Close(Send(R.ret[c], record)),
                                !.rw[c] = R.rw[c] + 1],
                e |-> Empty]
      ELSE [R |-> R, e |-> <<ErrNoReturnChannel(id)>>]

returnRecord(R, zone, recordType, key, value, record) ==
  LET id == genId(zone, recordType, key, value)
  IN  IF id \in DOMAIN R.rc
      THEN LET c == R.rc[id]
           IN  [R |-> [R EXCEPT !.rc = MapRemove(R.rc, id),
                                !.ret[c] = Close(Send(R.ret[c], record)),
                                !.rw[c] = R.rw[c] + 1],
                e |-> Empty]
      ELSE [R |-> R, e |-> <<ErrNoReturnChannel(id)>>]

returnErrorByIdWithoutLock(R, id, err) ==
  IF id \in DOMAIN R.ec
  THEN LET c == R.ec[id]
       IN  [R |-> [R EXCEPT !.err[c] = Close(Send(R.err[c], err)),
                            !.ec = MapRemove(R.ec, id),
                            !.ew[c] = R.ew[c] + 1],
            e |-> Empty]
  ELSE [R |-> R, e |-> <<ErrNoErrorChannel(id)>>]

returnError(R, zone, recordType, key, value, err) ==
  returnErrorByIdWithoutLock(R, genId(zone, recordType, key, value), err)

\* the loop "for id := range c.errorChannels" over the ids that match
RECURSIVE returnErrorToIds(_, _, _, _)
returnErrorToIds(R, ids, err, rErrs) ==
  IF ids = {} THEN [R |-> R, e |-> rErrs]
  ELSE LET id == CHOOSE x \in ids : TRUE
           r == returnErrorByIdWithoutLock(R, id, err)
       IN  returnErrorToIds(r.R, ids \ {id}, err, rErrs \o r.e)

ErrReturnToZone(n, zone, err) ==
  [msg |-> "failed to return error to zone", n |-> n, zone |-> zone, cause |-> err]

\* a routing that stops at the first request of the zone it finds
returnErrorToOneOfZone(R, zone, err) ==
  LET ids == {id \in DOMAIN R.ec : Split(id)[1] = zone}
      r == returnErrorToIds(R, IF ids = {} THEN {} ELSE {CHOOSE id \in ids : TRUE}, err, Empty)
  IN  [R |-> r.R, e |-> Empty]

returnErrorToZone(R, zone, err) ==
  LET ids == {id \in DOMAIN R.ec : Split(id)[1] = zone}
      r == returnErrorToIds(R, ids, err, Empty)
  IN  [R |-> r.R,
       e |-> IF Len(r.e) > 0 THEN <<ErrReturnToZone(Len(r.e), zone, err)>> ELSE Empty]

\* a routing by record type that takes every request of the zone
returnErrorToWholeZone(R, zone, recordType, err) == returnErrorToZone(R, zone, err)

returnErrorToZoneWithRecordType(R, zone, recordType, err) ==
  LET ids == {id \in DOMAIN R.ec : Split(id)[1] = zone /\ Split(id)[2] = recordType}
      r == returnErrorToIds(R, ids, err, Empty)
  IN  [R |-> r.R,
       e |-> IF Len(r.e) > 0 THEN <<ErrReturnToZone(Len(r.e), zone, err)>> ELSE Empty]

\* the assignment of a routing result to the state
SetRouter(R) ==
  /\ returnChannels' = R.rc
  /\ errorChannels' = R.ec
  /\ retCh' = R.ret
  /\ errCh' = R.err
  /\ retWrites' = R.rw
  /\ errWrites' = R.ew

ErrFailedToReturn(e) == [msg |-> "failed to return error", cause |-> e]

\* errChan <- fmt.Errorf("failed to return error: %s", rErr) when rErr != nil
SendErrChan(ch, e) == IF e = Empty THEN ch ELSE Append(ch, ErrFailedToReturn(e[1]))

\* ------------------------------------------------------------------ flush loop

\* the timer made by time.NewTimer(FLUSH_IDLE_DURATION) expires
TimerExpire ==
  /\ loopPc = "select"
  /\ flushTimer = "running"
  /\ flushTimer' = "fired"
  /\ UNCHANGED <<flushTrigger, flushLoopStopChan, stopOnce, lockPc, loopPc, flushErr, stopPc>>
  /\ UNCHANGED <<callerVars, queueVars, taskVars, backendVars, cacheVars, histVars>>

\* a loop that runs a flush as soon as it receives a trigger
LoopTriggerFlushes ==
  /\ loopPc = "select"
  /\ flushTrigger > 0
  /\ batchMutex = "free"
  /\ flushTrigger' = 0
  /\ flushTimer' = "stopped"
  /\ batchMutex' = "flush"
  /\ payload' = [z \in Zones |->
                   IF \E i \in 1..Len(recordActionQueue) : recordActionQueue[i].ZoneName = z
                   THEN <<ZoneEditOf(recordActionQueue[
                            CHOOSE i \in 1..Len(recordActionQueue) :
                              recordActionQueue[i].ZoneName = z])>>
                   ELSE Empty]
  /\ taskPc' = [z \in Zones |-> IF payload'[z] # Empty THEN "submit" ELSE None]
  /\ loopPc' = "wait"
  /\ UNCHANGED <<flushLoopStopChan, stopOnce, lockPc, flushErr, stopPc>>
  /\ UNCHANGED <<recordActionQueue, returnChannels, errorChannels>>
  /\ UNCHANGED <<conflicts, pendings, recordsByType, taskZone, errChan>>
  /\ UNCHANGED <<callerVars, backendVars, cacheVars, histVars>>

\* case <-c.flushTrigger: the timer is stopped, the channel drained, and the
\* next iteration of the loop makes a new timer
LoopTrigger ==
  /\ loopPc = "select"
  /\ flushTrigger > 0
  /\ flushTrigger' = 0
  /\ flushTimer' = "running"
  /\ UNCHANGED <<flushLoopStopChan, stopOnce, lockPc, loopPc, flushErr, stopPc>>
  /\ UNCHANGED <<callerVars, queueVars, taskVars, backendVars, cacheVars, histVars>>

\* a grouping that keeps one action per request: the first of the zone
RECURSIVE firstEditOf(_, _)
firstEditOf(queue, zone) ==
  IF queue = Empty THEN Empty
  ELSE IF Head(queue).ZoneName = zone
       THEN <<ZoneEditOf(Head(queue))>>
       ELSE firstEditOf(Tail(queue), zone)

\* a grouping that puts each action in front of the earlier ones
RECURSIVE zoneEditsNewestFirst(_, _)
zoneEditsNewestFirst(queue, zone) ==
  IF queue = Empty THEN Empty
  ELSE zoneEditsNewestFirst(Tail(queue), zone)
       \o (IF Head(queue).ZoneName = zone THEN <<ZoneEditOf(Head(queue))>> ELSE Empty)

\* zoneEdits[zone]: the edits of the queued actions of the zone, in order
RECURSIVE zoneEditsOf(_, _)
zoneEditsOf(queue, zone) ==
  IF queue = Empty THEN Empty
  ELSE (IF Head(queue).ZoneName = zone THEN <<ZoneEditOf(Head(queue))>> ELSE Empty)
       \o zoneEditsOf(Tail(queue), zone)

\* case <-flushTimer.C: flush() = editZones(), up to the start of the
\* goroutines: batchMutex is taken, the queue grouped by zone, one goroutine
\* started per zone
LoopTimer ==
  /\ loopPc = "select"
  /\ flushTimer = "fired"
  /\ batchMutex = "free"
  /\ batchMutex' = "flush"
  /\ payload' = [z \in Zones |-> zoneEditsOf(recordActionQueue, z)]
  /\ taskPc' = [z \in Zones |-> IF payload'[z] # Empty THEN "submit" ELSE None]
  /\ loopPc' = "wait"
  /\ flushErr' = Empty
  /\ UNCHANGED <<flushTrigger, flushTimer, flushLoopStopChan, stopOnce, lockPc, stopPc>>
  /\ UNCHANGED <<recordActionQueue, returnChannels, errorChannels>>
  /\ UNCHANGED <<conflicts, pendings, recordsByType, taskZone, errChan>>
  /\ UNCHANGED <<callerVars, backendVars, cacheVars, histVars>>

\* an editZones that does not wait for its goroutines
LoopWaitJoinsNobody ==
  /\ loopPc = "wait"
  /\ flushErr' = errChan
  /\ batchMutex' = "free"
  /\ loopPc' = "clear"
  /\ UNCHANGED <<flushTrigger, flushTimer, flushLoopStopChan, stopOnce, lockPc, stopPc>>
  /\ UNCHANGED <<recordActionQueue, returnChannels, errorChannels>>
  /\ UNCHANGED <<callerVars, taskVars, backendVars, cacheVars, histVars>>

\* wg.Wait() returns, errChan is closed and read into the result of
\* editZones, and the deferred batchMutex.Unlock() runs
LoopWait ==
  /\ loopPc = "wait"
  /\ \A z \in Zones : taskPc[z] \in {None, "done"}
  /\ flushErr' = errChan
  /\ batchMutex' = "free"
  /\ loopPc' = "clear"
  /\ UNCHANGED <<flushTrigger, flushTimer, flushLoopStopChan, stopOnce, lockPc, stopPc>>
  /\ UNCHANGED <<recordActionQueue, returnChannels, errorChannels>>
  /\ UNCHANGED <<callerVars, taskVars, backendVars, cacheVars, histVars>>

\* a cleanup that empties the maps and leaves their channels open
clearKeepsOpen(chans, m) == chans

\* the deferred clear(): under both mutexes the queue is dropped and every
\* channel still in the maps is closed; editZones returns, flushLoop logs the
\* error and starts its next iteration with a new timer
clear(chans, m) ==
  [c \in DOMAIN chans |->
     IF \E id \in DOMAIN m : m[id] = c THEN Close(chans[c]) ELSE chans[c]]

\* a loop that a flush error ends
LoopClearFatal ==
  /\ loopPc = "clear"
  /\ batchMutex = "free"
  /\ recordActionQueue' = Empty
  /\ retCh' = clear(retCh, returnChannels)
  /\ errCh' = clear(errCh, errorChannels)
  /\ returnChannels' = EmptyMap
  /\ errorChannels' = EmptyMap
  /\ taskPc' = [z \in Zones |-> None]
  /\ payload' = [z \in Zones |-> Empty]
  /\ recordsByType' = [z \in Zones |-> EmptyMap]
  /\ taskZone' = [z \in Zones |-> NoZone]
  /\ errChan' = Empty
  /\ posts' = [z \in Zones |-> 0]
  /\ cancels' = [z \in Zones |-> 0]
  /\ taskOutcome' = [z \in Zones |-> None]
  /\ flushTimer' = IF flushErr # Empty THEN "stopped" ELSE "running"
  /\ loopPc' = IF flushErr # Empty THEN "stopped" ELSE "select"
  /\ UNCHANGED <<callerPc, callerResult, batchMutex>>
  /\ UNCHANGED <<flushTrigger, flushLoopStopChan, stopOnce, lockPc, stopPc, flushErr>>
  /\ UNCHANGED <<conflicts, pendings>>
  /\ UNCHANGED <<backendVars, cacheVars, retWrites, errWrites, invalidatedVer, fetches, gzIssued>>

LoopClear ==
  /\ loopPc = "clear"
  /\ batchMutex = "free"
  /\ recordActionQueue' = Empty
  /\ retCh' = clear(retCh, returnChannels)
  /\ errCh' = clear(errCh, errorChannels)
  /\ returnChannels' = EmptyMap
  /\ errorChannels' = EmptyMap
  /\ taskPc' = [z \in Zones |-> None]
  /\ payload' = [z \in Zones |-> Empty]
  /\ recordsByType' = [z \in Zones |-> EmptyMap]
  /\ taskZone' = [z \in Zones |-> NoZone]
  /\ errChan' = Empty
  /\ posts' = [z \in Zones |-> 0]
  /\ cancels' = [z \in Zones |-> 0]
  /\ taskOutcome' = [z \in Zones |-> None]
  /\ flushTimer' = "running"
  /\ loopPc' = "select"
  /\ UNCHANGED <<callerPc, callerResult, batchMutex>>
  /\ UNCHANGED <<flushTrigger, flushLoopStopChan, stopOnce, lockPc, stopPc, flushErr>>
  /\ UNCHANGED <<conflicts, pendings>>
  /\ UNCHANGED <<backendVars, cacheVars, retWrites, errWrites, invalidatedVer, fetches, gzIssued>>

\* a loop whose stop case stops the timer and goes on looping
LoopStopStays ==
  /\ loopPc = "select"
  /\ flushLoopStopChan > 0
  /\ flushTimer = "running"
  /\ flushTimer' = "stopped"
  /\ UNCHANGED <<flushTrigger, flushLoopStopChan, stopOnce, lockPc, loopPc, flushErr, stopPc>>
  /\ UNCHANGED <<callerVars, queueVars, taskVars, backendVars, cacheVars, histVars>>

\* a loop whose stop case is also taken while a flush waits for its tasks
LoopStopAborts ==
  /\ loopPc \in {"select", "wait"}
  /\ flushLoopStopChan > 0
  /\ flushTimer' = "stopped"
  /\ loopPc' = "stopped"
  /\ UNCHANGED <<flushTrigger, flushLoopStopChan, stopOnce, lockPc, flushErr, stopPc>>
  /\ UNCHANGED <<callerVars, queueVars, taskVars, backendVars, cacheVars, histVars>>

\* case <-c.flushLoopStopChan: the timer is stopped and flushLoop returns
LoopStop ==
  /\ loopPc = "select"
  /\ flushLoopStopChan > 0
  /\ flushTimer' = "stopped"
  /\ loopPc' = "stopped"
  /\ UNCHANGED <<flushTrigger, flushLoopStopChan, stopOnce, lockPc, flushErr, stopPc>>
  /\ UNCHANGED <<callerVars, queueVars, taskVars, backendVars, cacheVars, histVars>>

\* ------------------------------------------------------------------ Stop

\* a Stop without the guard of the Once: every caller runs f
onceEnterUnguarded(once) == once \in {"new", "running", "done"}

\* c.stopOnce.Do(f): the first caller runs f, a caller that arrives while f
\* runs waits for it, a caller that arrives afterwards returns at once
onceEnter(once) == once = "new"

StopBegin(s) ==
  /\ stopPc[s] = "idle"
  /\ onceEnter(stopOnce)
  /\ stopOnce' = "running"
  /\ UNCHANGED lockPc
  /\ stopPc' = [stopPc EXCEPT ![s] = "closing"]
  /\ UNCHANGED <<flushTrigger, flushTimer, flushLoopStopChan, loopPc, flushErr>>
  /\ UNCHANGED <<callerVars, queueVars, taskVars, backendVars, cacheVars, histVars>>

\* f: close(c.flushLoopStopChan); Do marks the Once done and Stop returns
StopClose(s) ==
  /\ stopPc[s] = "closing"
  /\ flushLoopStopChan' = flushLoopStopChan + 1
  /\ stopOnce' = "done"
  /\ UNCHANGED lockPc
  /\ stopPc' = [stopPc EXCEPT ![s] = "done"]
  /\ UNCHANGED <<flushTrigger, flushTimer, loopPc, flushErr>>
  /\ UNCHANGED <<callerVars, queueVars, taskVars, backendVars, cacheVars, histVars>>

StopSkip(s) ==
  /\ stopPc[s] = "idle"
  /\ stopOnce = "done"
  /\ stopPc' = [stopPc EXCEPT ![s] = "done"]
  /\ UNCHANGED <<flushTrigger, flushTimer, flushLoopStopChan, stopOnce, lockPc, loopPc, flushErr>>
  /\ UNCHANGED <<callerVars, queueVars, taskVars, backendVars, cacheVars, histVars>>

\* ------------------------------------------------------------------ backend

PostResponses == {"201", "OPEN_ZONE_EDITS", "rejected", "transport"}
StatusResponses == {"PENDING", "COMPLETED", "FAILED", "FAILED_nocancel", "transport"}

\* the record list of a zone after one edit of a completed batch
applyEdit(recs, ze) ==
  LET kept == SelectSeq(recs, LAMBDA r :
                ~(r.Type = ze.RecordType /\ r.Key = ze.CurrentKey /\ r.Value = ze.CurrentValue))
  IN  CASE ze.Action = <<"ADD">> -> Append(recs, ZoneRecord(ze.RecordType, ze.NewKey, ze.NewValue))
        [] ze.Action = <<"EDIT">> -> Append(kept, ZoneRecord(ze.RecordType, ze.NewKey, ze.NewValue))
        [] OTHER -> kept

RECURSIVE applyEdits(_, _)
applyEdits(recs, edits) ==
  IF edits = Empty THEN recs ELSE applyEdits(applyEdit(recs, Head(edits)), Tail(edits))

\* ------------------------------------------------------------------ zone task

ErrEditZone(zone, cause) == [msg |-> "failed to edit zone", zone |-> zone, cause |-> cause]
ErrWaitZone(zone, cause) == [msg |-> "failed to wait for zone edits", zone |-> zone, cause |-> cause]
ErrUnsupported(recordType) == [msg |-> "unsupported record type", recordType |-> recordType]
ErrFetch == [msg |-> "unable to send request"]

TaskFrame == UNCHANGED <<callerPc, callerResult, recordActionQueue, batchMutex, loopVars>>

\* a task that goes on to poll after a submission that failed
TaskSubmitPollsAnyway(z, resp) ==
  /\ taskPc[z] = "submit"
  /\ CASE resp = "201" ->
            /\ openEdits[z] = Empty
            /\ openEdits' = [openEdits EXCEPT ![z] = payload[z]]
            /\ posts' = [posts EXCEPT ![z] = @ + 1]
            /\ taskPc' = [taskPc EXCEPT ![z] = "poll"]
            /\ conflicts' = [conflicts EXCEPT ![z] = 0]
            /\ UNCHANGED <<errChan, returnChannels, errorChannels, retCh, errCh,
                           retWrites, errWrites>>
       [] resp = "OPEN_ZONE_EDITS" ->
            /\ conflicts[z] < MaxConflicts
            /\ conflicts' = [conflicts EXCEPT ![z] = @ + 1]
            /\ UNCHANGED <<taskPc, openEdits, posts, errChan, returnChannels, errorChannels,
                           retCh, errCh, retWrites, errWrites>>
       [] OTHER ->
            LET r == returnErrorToZone(Router, z, ErrEditZone(z, resp))
            IN  /\ SetRouter(r.R)
                /\ errChan' = SendErrChan(errChan, r.e)
                /\ taskPc' = [taskPc EXCEPT ![z] = "poll"]
                /\ conflicts' = [conflicts EXCEPT ![z] = 0]
                /\ UNCHANGED <<openEdits, posts>>
  /\ taskOutcome' = [taskOutcome EXCEPT ![z] =
                       IF resp \in {"201", "OPEN_ZONE_EDITS"} THEN @ ELSE "failed"]
  /\ TaskFrame
  /\ UNCHANGED <<payload, pendings, recordsByType, taskZone, zoneRecs, zoneVer>>
  /\ UNCHANGED <<cacheVars, cancels, invalidatedVer, fetches, gzIssued>>

\* a task that takes an accepted submission for a completed edit
TaskSubmitSkipsPolling(z, resp) ==
  /\ taskPc[z] = "submit"
  /\ CASE resp = "201" ->
            /\ openEdits[z] = Empty
            /\ openEdits' = [openEdits EXCEPT ![z] = payload[z]]
            /\ posts' = [posts EXCEPT ![z] = @ + 1]
            /\ taskPc' = [taskPc EXCEPT ![z] = "invalidate"]
            /\ conflicts' = [conflicts EXCEPT ![z] = 0]
            /\ UNCHANGED <<errChan, returnChannels, errorChannels, retCh, errCh,
                           retWrites, errWrites>>
       [] resp = "OPEN_ZONE_EDITS" ->
            /\ conflicts[z] < MaxConflicts
            /\ conflicts' = [conflicts EXCEPT ![z] = @ + 1]
            /\ UNCHANGED <<taskPc, openEdits, posts, errChan, returnChannels, errorChannels,
                           retCh, errCh, retWrites, errWrites>>
       [] OTHER ->
            LET r == returnErrorToZone(Router, z, ErrEditZone(z, resp))
            IN  /\ SetRouter(r.R)
                /\ errChan' = SendErrChan(errChan, r.e)
                /\ taskPc' = [taskPc EXCEPT ![z] = "done"]
                /\ conflicts' = [conflicts EXCEPT ![z] = 0]
                /\ UNCHANGED <<openEdits, posts>>
  /\ taskOutcome' = [taskOutcome EXCEPT ![z] =
                       IF resp \in {"201", "OPEN_ZONE_EDITS"} THEN @ ELSE "failed"]
  /\ TaskFrame
  /\ UNCHANGED <<payload, pendings, recordsByType, taskZone, zoneRecs, zoneVer>>
  /\ UNCHANGED <<cacheVars, cancels, invalidatedVer, fetches, gzIssued>>

\* editZone: one POST zones/edits and what the goroutine does with the answer
TaskSubmit(z, resp) ==
  /\ taskPc[z] = "submit"
  /\ CASE resp = "201" ->
            /\ openEdits[z] = Empty
            /\ openEdits' = [openEdits EXCEPT ![z] = payload[z]]
            /\ posts' = [posts EXCEPT ![z] = @ + 1]
            /\ taskPc' = [taskPc EXCEPT ![z] = "poll"]
            /\ conflicts' = [conflicts EXCEPT ![z] = 0]
            /\ UNCHANGED <<errChan, returnChannels, errorChannels, retCh, errCh,
                           retWrites, errWrites>>
       [] resp = "OPEN_ZONE_EDITS" ->
            /\ conflicts[z] < MaxConflicts
            /\ conflicts' = [conflicts EXCEPT ![z] = @ + 1]
            /\ UNCHANGED <<taskPc, openEdits, posts, errChan, returnChannels, errorChannels,
                           retCh, errCh, retWrites, errWrites>>
       [] OTHER ->
            LET r == returnErrorToZone(Router, z, ErrEditZone(z, resp))
            IN  /\ SetRouter(r.R)
                /\ errChan' = SendErrChan(errChan, r.e)
                /\ taskPc' = [taskPc EXCEPT ![z] = "done"]
                /\ conflicts' = [conflicts EXCEPT ![z] = 0]
                /\ UNCHANGED <<openEdits, posts>>
  /\ taskOutcome' = [taskOutcome EXCEPT ![z] =
                       IF resp \in {"201", "OPEN_ZONE_EDITS"} THEN @ ELSE "failed"]
  /\ TaskFrame
  /\ UNCHANGED <<payload, pendings, recordsByType, taskZone, zoneRecs, zoneVer>>
  /\ UNCHANGED <<cacheVars, cancels, invalidatedVer, fetches, gzIssued>>

\* a polling that takes a FAILED edit whose cancellation succeeded for a
\* completed one
TaskPollCancelSucceeds(z, resp) ==
  /\ taskPc[z] = "poll"
  /\ CASE resp = "PENDING" ->
            /\ pendings[z] < MaxPending
            /\ pendings' = [pendings EXCEPT ![z] = @ + 1]
            /\ UNCHANGED <<taskPc, zoneRecs, zoneVer, openEdits, errChan, returnChannels,
                           errorChannels, retCh, errCh, retWrites, errWrites>>
       [] resp \in {"COMPLETED", "FAILED"} ->
            /\ zoneRecs' = [zoneRecs EXCEPT ![z] = applyEdits(@, openEdits[z])]
            /\ zoneVer' = [zoneVer EXCEPT ![z] = @ + 1]
            /\ openEdits' = [openEdits EXCEPT ![z] = Empty]
            /\ taskPc' = [taskPc EXCEPT ![z] = "invalidate"]
            /\ pendings' = [pendings EXCEPT ![z] = 0]
            /\ UNCHANGED <<errChan, returnChannels, errorChannels, retCh, errCh,
                           retWrites, errWrites>>
       [] OTHER ->
            LET r == returnErrorToZone(Router, z, ErrWaitZone(z, resp))
            IN  /\ SetRouter(r.R)
                /\ errChan' = SendErrChan(errChan, r.e)
                /\ openEdits' = [openEdits EXCEPT ![z] = Empty]
                /\ taskPc' = [taskPc EXCEPT ![z] = "done"]
                /\ pendings' = [pendings EXCEPT ![z] = 0]
                /\ UNCHANGED <<zoneRecs, zoneVer>>
  /\ taskOutcome' = [taskOutcome EXCEPT ![z] =
                       CASE resp = "PENDING" -> @
                         [] resp \in {"COMPLETED", "FAILED"} -> "completed"
                         [] OTHER -> "failed"]
  /\ cancels' = [cancels EXCEPT ![z] =
                   IF resp \in {"FAILED", "FAILED_nocancel"} THEN @ + 1 ELSE @]
  /\ TaskFrame
  /\ UNCHANGED <<payload, conflicts, recordsByType, taskZone>>
  /\ UNCHANGED <<cacheVars, posts, invalidatedVer, fetches, gzIssued>>

\* waitForZoneEdits: one GET zones/edits/status/<id>; on FAILED the edit is
\* cancelled (cancelZoneEdit) and the error names whether that worked
TaskPoll(z, resp) ==
  /\ taskPc[z] = "poll"
  /\ CASE resp = "PENDING" ->
            /\ pendings[z] < MaxPending
            /\ pendings' = [pendings EXCEPT ![z] = @ + 1]
            /\ UNCHANGED <<taskPc, zoneRecs, zoneVer, openEdits, errChan, returnChannels,
                           errorChannels, retCh, errCh, retWrites, errWrites>>
       [] resp = "COMPLETED" ->
            /\ zoneRecs' = [zoneRecs EXCEPT ![z] = applyEdits(@, openEdits[z])]
            /\ zoneVer' = [zoneVer EXCEPT ![z] = @ + 1]
            /\ openEdits' = [openEdits EXCEPT ![z] = Empty]
            /\ taskPc' = [taskPc EXCEPT ![z] = "invalidate"]
            /\ pendings' = [pendings EXCEPT ![z] = 0]
            /\ UNCHANGED <<errChan, returnChannels, errorChannels, retCh, errCh,
                           retWrites, errWrites>>
       [] OTHER ->
            LET r == returnErrorToZone(Router, z, ErrWaitZone(z, resp))
            IN  /\ SetRouter(r.R)
                /\ errChan' = SendErrChan(errChan, r.e)
                /\ openEdits' = [openEdits EXCEPT ![z] = Empty]
                /\ taskPc' = [taskPc EXCEPT ![z] = "done"]
                /\ pendings' = [pendings EXCEPT ![z] = 0]
                /\ UNCHANGED <<zoneRecs, zoneVer>>
  /\ taskOutcome' = [taskOutcome EXCEPT ![z] =
                       CASE resp = "PENDING" -> @
                         [] resp = "COMPLETED" -> "completed"
                         [] OTHER -> "failed"]
  /\ cancels' = [cancels EXCEPT ![z] =
                   IF resp \in {"FAILED", "FAILED_nocancel"} THEN @ + 1 ELSE @]
  /\ TaskFrame
  /\ UNCHANGED <<payload, conflicts, recordsByType, taskZone>>
  /\ UNCHANGED <<cacheVars, posts, invalidatedVer, fetches, gzIssued>>

\* an invalidation that empties the cache
invalidateWholeCache(cache, zoneName) == [x \in {} |-> cache[x]]

\* an invalidation that leaves the entry in the cache
invalidateKeepsEntry(cache, zoneName) == cache

\* c.invalidateZoneCache(payload.ZoneName)
invalidateZoneCache(cache, zoneName) == [x \in DOMAIN cache \ {zoneName} |-> cache[x]]

\* an invalidation that waits until no goroutine of the flush is submitting
\* or polling any more
TaskInvalidateAfterAll(z) ==
  /\ \A y \in Zones : taskPc[y] \notin {"submit", "poll"}
  /\ taskPc[z] = "invalidate"
  /\ zoneCache' = invalidateZoneCache(zoneCache, z)
  /\ invalidatedVer' = [invalidatedVer EXCEPT ![z] = zoneVer[z]]
  /\ taskPc' = [taskPc EXCEPT ![z] = "purge"]
  /\ TaskFrame
  /\ UNCHANGED <<payload, conflicts, pendings, recordsByType, taskZone, errChan>>
  /\ UNCHANGED <<returnChannels, errorChannels, retCh, errCh, backendVars>>
  /\ UNCHANGED <<zoneGroup, gzPc, gzSnap, gzCall>>
  /\ UNCHANGED <<retWrites, errWrites, posts, cancels, taskOutcome, fetches, gzIssued>>

TaskInvalidate(z) ==
  /\ taskPc[z] = "invalidate"
  /\ zoneCache' = invalidateZoneCache(zoneCache, z)
  /\ invalidatedVer' = [invalidatedVer EXCEPT ![z] = zoneVer[z]]
  /\ taskPc' = [taskPc EXCEPT ![z] = "purge"]
  /\ TaskFrame
  /\ UNCHANGED <<payload, conflicts, pendings, recordsByType, taskZone, errChan>>
  /\ UNCHANGED <<returnChannels, errorChannels, retCh, errCh, backendVars>>
  /\ UNCHANGED <<zoneGroup, gzPc, gzSnap, gzCall>>
  /\ UNCHANGED <<retWrites, errWrites, posts, cancels, taskOutcome, fetches, gzIssued>>

\* the loop over payload.Edits: a PURGE gets its nil record at once, the keys
\* of the other edits are collected by record type.  The state of the loop:
\* R the router, rbt recordsByType, ch errChan, ret whether the goroutine
\* has returned.
MapAppend(m, k, v) ==
  [x \in DOMAIN m \cup {k} |-> IF x = k THEN (IF k \in DOMAIN m THEN Append(m[k], v) ELSE <<v>>)
                               ELSE m[x]]

RECURSIVE purgeLoop(_, _, _)
purgeLoop(st, zone, edits) ==
  IF edits = Empty \/ st.ret THEN st
  ELSE LET edit == Head(edits)
       IN  IF edit.Action = <<"PURGE">>
           THEN LET r == returnRecord(st.R, zone, edit.RecordType, KeyId(edit), ValueId(edit), NilRecord)
                IN  IF r.e # Empty
                    THEN LET r2 == returnError(r.R, zone, edit.RecordType, KeyId(edit), ValueId(edit), r.e[1])
                         IN  [st EXCEPT !.R = r2.R, !.ch = SendErrChan(st.ch, r2.e), !.ret = TRUE]
                    ELSE purgeLoop([st EXCEPT !.R = r.R], zone, Tail(edits))
           ELSE purgeLoop([st EXCEPT !.rbt = MapAppend(st.rbt, edit.RecordType, KeyId(edit))],
                          zone, Tail(edits))

TaskPurge(z) ==
  /\ taskPc[z] = "purge"
  /\ LET st == purgeLoop([R |-> Router, rbt |-> EmptyMap, ch |-> errChan, ret |-> FALSE],
                         z, payload[z])
     IN  /\ SetRouter(st.R)
         /\ errChan' = st.ch
         /\ recordsByType' = [recordsByType EXCEPT ![z] = st.rbt]
         /\ IF st.ret \/ DOMAIN st.rbt = {}
            THEN /\ taskPc' = [taskPc EXCEPT ![z] = "done"]
                 /\ UNCHANGED <<gzPc, gzIssued>>
            ELSE /\ taskPc' = [taskPc EXCEPT ![z] = "getzone"]
                 /\ gzPc' = [gzPc EXCEPT ![TaskThread(z)] = "check"]
                 /\ gzIssued' = [gzIssued EXCEPT ![TaskThread(z)] =
                                   [inv |-> invalidatedVer[z], f |-> fetches[z]]]
  /\ TaskFrame
  /\ UNCHANGED <<payload, conflicts, pendings, taskZone, backendVars>>
  /\ UNCHANGED <<zoneCache, zoneGroup, gzSnap, gzCall, posts, cancels, taskOutcome, invalidatedVer, fetches>>

\* c.GetZone(payload.ZoneName) has returned to the goroutine
TaskGotZone(z) ==
  /\ taskPc[z] = "getzone"
  /\ gzPc[TaskThread(z)] = "ret"
  /\ gzPc' = [gzPc EXCEPT ![TaskThread(z)] = None]
  /\ gzSnap' = [gzSnap EXCEPT ![TaskThread(z)] = NoZone]
  /\ gzIssued' = [gzIssued EXCEPT ![TaskThread(z)] = NotIssued]
  /\ IF gzSnap[TaskThread(z)].kind = "err"
     THEN LET r == returnErrorToZone(Router, z, ErrFetch)
          IN  /\ SetRouter(r.R)
              /\ errChan' = SendErrChan(errChan, r.e)
              /\ taskPc' = [taskPc EXCEPT ![z] = "done"]
              /\ taskZone' = taskZone
     ELSE /\ taskZone' = [taskZone EXCEPT ![z] = gzSnap[TaskThread(z)]]
          /\ taskPc' = [taskPc EXCEPT ![z] = "route"]
          /\ UNCHANGED <<errChan, returnChannels, errorChannels, retCh, errCh, retWrites, errWrites>>
  /\ TaskFrame
  /\ UNCHANGED <<payload, conflicts, pendings, recordsByType, backendVars>>
  /\ UNCHANGED <<zoneCache, zoneGroup, gzCall, posts, cancels, taskOutcome, invalidatedVer, fetches>>

\* GetRecordsByType: the list of the type, nil for a type it does not know
SupportedTypes == {<<"A">>, <<"AAAA">>, <<"CNAME">>, <<"MX">>, <<"NS">>, <<"TXT">>}

GetRecordsByType(zone, recordType) ==
  IF recordType \in SupportedTypes
  THEN [nil |-> FALSE, recs |-> SelectSeq(zone.recs, LAMBDA r : r.Type = recordType)]
  ELSE [nil |-> TRUE, recs |-> Empty]

\* GetRecordsByKeys: key -> the last record of the list that has the key
GetRecordsByKeys(records, keys) ==
  LET keySet == SeqToSet(keys)
      found == {records[i].Key : i \in {j \in 1..Len(records) : records[j].Key \in keySet}}
  IN  [k \in found |->
         records[CHOOSE i \in 1..Len(records) :
                   /\ records[i].Key = k
                   /\ \A j \in (i + 1)..Len(records) : records[j].Key # k]]

\* the orders in which a range over a Go map of the keys S may run
Orders(S) == {o \in [1..Cardinality(S) -> S] : \A i, j \in 1..Cardinality(S) : o[i] = o[j] => i = j}

\* for key, record := range c.GetRecordsByKeys(records, keys), in the order o
RECURSIVE routeLoop(_, _, _, _, _)
routeLoop(st, zone, recordType, m, o) ==
  IF o = Empty \/ st.ret THEN st
  ELSE LET key == Head(o)
           record == m[key]
           r == returnRecord(st.R, zone, recordType, key, record.Value, RecordPtr(record))
       IN  IF r.e # Empty
           THEN LET r2 == returnError(r.R, zone, recordType, key, record.Value, r.e[1])
                IN  [st EXCEPT !.R = r2.R, !.ch = SendErrChan(st.ch, r2.e), !.ret = TRUE]
           ELSE routeLoop([st EXCEPT !.R = r.R], zone, recordType, m, Tail(o))

\* one iteration of "for recordType, keys := range recordsByType"
TaskRoute(z, recordType) ==
  /\ taskPc[z] = "route"
  /\ recordType \in DOMAIN recordsByType[z]
  /\ LET records == GetRecordsByType(taskZone[z], recordType)
         rest == MapRemove(recordsByType[z], recordType)
     IN  IF records.nil
         THEN LET r == returnErrorToZoneWithRecordType(Router, z, recordType, ErrUnsupported(recordType))
              IN  /\ SetRouter(r.R)
                  /\ errChan' = SendErrChan(errChan, r.e)
                  /\ taskPc' = [taskPc EXCEPT ![z] = "done"]
                  /\ recordsByType' = [recordsByType EXCEPT ![z] = rest]
         ELSE LET m == GetRecordsByKeys(records.recs, recordsByType[z][recordType])
              IN  \E o \in Orders(DOMAIN m) :
                    LET st == routeLoop([R |-> Router, ch |-> errChan, ret |-> FALSE],
                                        z, recordType, m, o)
                    IN  /\ SetRouter(st.R)
                        /\ errChan' = st.ch
                        /\ recordsByType' = [recordsByType EXCEPT ![z] = rest]
                        /\ taskPc' = [taskPc EXCEPT ![z] =
                                        IF st.ret \/ DOMAIN rest = {} THEN "done" ELSE "route"]
  /\ TaskFrame
  /\ UNCHANGED <<payload, conflicts, pendings, taskZone, backendVars>>
  /\ UNCHANGED <<cacheVars, posts, cancels, taskOutcome, invalidatedVer, fetches, gzIssued>>

\* ------------------------------------------------------------------ zone cache

\* the zone a goroutine asks for: a zone task its own zone, a reader Z1
ZoneOfThread(t) == IF t = TaskThread(Z2) THEN Z2 ELSE Z1

CacheFrame ==
  /\ UNCHANGED <<callerVars, queueVars, loopVars, taskVars, backendVars>>
  /\ UNCHANGED <<retWrites, errWrites, posts, cancels, taskOutcome, invalidatedVer>>

\* a reader calls GetZone or FetchZone
ReaderGetZone(r) ==
  /\ gzPc[r] = None
  /\ gzPc' = [gzPc EXCEPT ![r] = "check"]
  /\ gzIssued' = [gzIssued EXCEPT ![r] =
                    [inv |-> invalidatedVer[ZoneOfThread(r)], f |-> fetches[ZoneOfThread(r)]]]
  /\ UNCHANGED <<zoneCache, zoneGroup, gzSnap, gzCall, fetches>>
  /\ CacheFrame

ReaderFetchZone(r) ==
  /\ gzPc[r] = None
  /\ gzPc' = [gzPc EXCEPT ![r] = "ffetch"]
  /\ UNCHANGED <<zoneCache, zoneGroup, gzSnap, gzCall, fetches, gzIssued>>
  /\ CacheFrame

\* GetZone: the look in the cache under the read lock
GzCheck(t) ==
  /\ gzPc[t] = "check"
  /\ IF ZoneOfThread(t) \in DOMAIN zoneCache
     THEN /\ gzSnap' = [gzSnap EXCEPT ![t] = zoneCache[ZoneOfThread(t)]]
          /\ gzPc' = [gzPc EXCEPT ![t] = "ret"]
     ELSE /\ gzSnap' = gzSnap
          /\ gzPc' = [gzPc EXCEPT ![t] = "do"]
  /\ UNCHANGED <<zoneCache, zoneGroup, gzCall, fetches, gzIssued>>
  /\ CacheFrame

\* zoneGroup.Do(zoneName, fn): with no call in flight for the key the
\* goroutine registers one and runs fn, otherwise it waits for the call in
\* flight and shares its result
\* a group in which every caller runs fn itself
sfNeverJoins(group, z) == FALSE

sfJoin(group, z) == group[z] # 0

GzDo(t) ==
  /\ gzPc[t] = "do"
  /\ IF sfJoin(zoneGroup, ZoneOfThread(t))
     THEN /\ gzCall' = [gzCall EXCEPT ![t] = zoneGroup[ZoneOfThread(t)]]
          /\ gzPc' = [gzPc EXCEPT ![t] = "wait"]
          /\ zoneGroup' = zoneGroup
     ELSE /\ zoneGroup' = [zoneGroup EXCEPT ![ZoneOfThread(t)] = t]
          /\ gzCall' = [gzCall EXCEPT ![t] = t]
          /\ gzPc' = [gzPc EXCEPT ![t] = "fetch"]
  /\ UNCHANGED <<zoneCache, gzSnap, fetches, gzIssued>>
  /\ CacheFrame

\* the record lists that the backend may answer for a zone: the client does
\* not decide the order of the records in the JSON arrays, which is the
\* order of the edits or its reverse here
Reverse(recs) == [i \in 1..Len(recs) |-> recs[Len(recs) + 1 - i]]
Listings(recs) == {recs, Reverse(recs)}

\* FetchZone: GET zones/<zoneName> and the decoding of the answer
GzFetch(t, ok) ==
  /\ gzPc[t] \in {"fetch", "ffetch"}
  /\ fetches' = [fetches EXCEPT ![ZoneOfThread(t)] = @ + 1]
  /\ IF ok
     THEN /\ \E recs \in Listings(zoneRecs[ZoneOfThread(t)]) :
               gzSnap' = [gzSnap EXCEPT ![t] = ZoneSnap(zoneVer[ZoneOfThread(t)], recs)]
          /\ gzPc' = [gzPc EXCEPT ![t] = IF gzPc[t] = "fetch" THEN "store1" ELSE "fstore"]
     ELSE /\ gzSnap' = [gzSnap EXCEPT ![t] = ZoneErr]
          /\ gzPc' = [gzPc EXCEPT ![t] = IF gzPc[t] = "fetch" THEN "finish" ELSE "fdone"]
  /\ UNCHANGED <<zoneCache, zoneGroup, gzCall, gzIssued>>
  /\ CacheFrame

\* a store that leaves the cache as it was
cacheStoreDrops(cache, zoneName, zone) == cache

\* c.zoneCache[zoneName] = &zone
cacheStore(cache, zoneName, zone) ==
  [x \in DOMAIN cache \cup {zoneName} |-> IF x = zoneName THEN zone ELSE cache[x]]

\* FetchZone: the store into the cache before it returns
GzStore(t) ==
  /\ gzPc[t] \in {"store1", "fstore"}
  /\ zoneCache' = cacheStore(zoneCache, ZoneOfThread(t), gzSnap[t])
  /\ gzPc' = [gzPc EXCEPT ![t] = IF gzPc[t] = "store1" THEN "store2" ELSE "fdone"]
  /\ UNCHANGED <<zoneGroup, gzSnap, gzCall, fetches, gzIssued>>
  /\ CacheFrame

\* fn of GetZone: the second store, after FetchZone has returned
GzStoreAgain(t) ==
  /\ gzPc[t] = "store2"
  /\ zoneCache' = cacheStore(zoneCache, ZoneOfThread(t), gzSnap[t])
  /\ gzPc' = [gzPc EXCEPT ![t] = "finish"]
  /\ UNCHANGED <<zoneGroup, gzSnap, gzCall, fetches, gzIssued>>
  /\ CacheFrame

\* fn has returned: the call is taken out of the group and its result
\* handed to the goroutines that wait for it
GzFinish(t) ==
  /\ gzPc[t] = "finish"
  /\ zoneGroup' = [zoneGroup EXCEPT ![ZoneOfThread(t)] = 0]
  /\ gzPc' = [u \in Threads |->
                IF u = t \/ (gzPc[u] = "wait" /\ gzCall[u] = t) THEN "ret" ELSE gzPc[u]]
  /\ gzSnap' = [u \in Threads |->
                  IF gzPc[u] = "wait" /\ gzCall[u] = t THEN gzSnap[t] ELSE gzSnap[u]]
  /\ gzCall' = [u \in Threads |->
                  IF u = t \/ (gzPc[u] = "wait" /\ gzCall[u] = t) THEN 0 ELSE gzCall[u]]
  /\ UNCHANGED <<zoneCache, fetches, gzIssued>>
  /\ CacheFrame

\* GetZone returns to a reader
ReaderReturn(r) ==
  /\ r \in Readers
  /\ gzPc[r] = "ret"
  /\ gzPc' = [gzPc EXCEPT ![r] = "done"]
  /\ UNCHANGED <<zoneCache, zoneGroup, gzSnap, gzCall, fetches, gzIssued>>
  /\ CacheFrame

\* ------------------------------------------------------------------ lock steps

LockFrame ==
  UNCHANGED <<callerVars, queueVars, taskVars, backendVars, cacheVars, histVars,
              flushTrigger, flushTimer, flushLoopStopChan, stopOnce, loopPc, flushErr, stopPc>>

\* the next call of a goroutine, and its position after that call: enqueue,
\* flush and GetZone are called again and again, a zone goroutine ends
HasNext(t) == lockPc[t] < Len(OpsOf(t))
NextOp(t) == OpsOf(t)[lockPc[t] + 1]
After(t, n) == IF n >= Len(OpsOf(t)) /\ t \notin LockTasks THEN 0 ELSE n

\* Lock and RLock: Lock waits until nobody holds the mutex, RLock until
\* nobody holds it for writing
LockAcquire(t) ==
  /\ HasNext(t)
  /\ NextOp(t).op \in {"lock", "rlock"}
  /\ \A u \in LockThreads \ {t} :
       NextOp(t).m \notin (IF NextOp(t).op = "lock" THEN Held(u) ELSE HeldExclusive(u))
  /\ lockPc' = [lockPc EXCEPT ![t] = After(t, @ + 1)]
  /\ LockFrame

LockRelease(t) ==
  /\ HasNext(t)
  /\ NextOp(t).op \in {"unlock", "runlock"}
  /\ lockPc' = [lockPc EXCEPT ![t] = After(t, @ + 1)]
  /\ LockFrame

\* go func(payload): the goroutines of the zones of the batch are started
LockFork(S) ==
  /\ HasNext("flush")
  /\ NextOp("flush").op = "fork"
  /\ S \subseteq LockTasks
  /\ \A u \in LockTasks : ~HasNext(u)
  /\ lockPc' = [t \in LockThreads |->
                  IF t = "flush" THEN lockPc[t] + 1 ELSE IF t \in S THEN 0 ELSE lockPc[t]]
  /\ LockFrame

\* wg.Wait(): every zone goroutine has returned
LockJoin ==
  /\ HasNext("flush")
  /\ NextOp("flush").op = "join"
  /\ \A u \in LockTasks : ~HasNext(u)
  /\ lockPc' = [lockPc EXCEPT !["flush"] = @ + 1]
  /\ LockFrame

\* a stage that a zone goroutine or a GetZone call leaves out: a cache hit,
\* a failed step, a batch with nothing to route
LockSkip(t) ==
  /\ t \in LockTasks \cup {"getzone"}
  /\ HasNext(t)
  /\ Held(t) = {}
  /\ lockPc' = [lockPc EXCEPT ![t] = After(t, @ + 2)]
  /\ LockFrame

LockStep ==
  \/ \E t \in LockThreads : LockAcquire(t) \/ LockRelease(t) \/ LockSkip(t)
  \/ \E S \in SUBSET LockTasks : LockFork(S)
  \/ LockJoin

\* ------------------------------------------------------------------ specifications

\* the callers of the round-robin pair and of the purge in the other zone
MainCallers == {c \in Callers : c \notin {4, 5, 6, 7}}

CallerStep == \E c \in MainCallers : Enqueue(c) \/ RecvReturn(c) \/ RecvError(c)

LoopStep == TimerExpire \/ LoopTrigger \/ LoopTimer \/ LoopWait \/ LoopClear

TaskStep ==
  \E z \in Zones :
    \/ \E resp \in PostResponses : TaskSubmit(z, resp)
    \/ \E resp \in StatusResponses : TaskPoll(z, resp)
    \/ TaskInvalidate(z)
    \/ TaskPurge(z)
    \/ TaskGotZone(z)
    \/ \E recordType \in DOMAIN recordsByType[z] : TaskRoute(z, recordType)

GetZoneStep(T) ==
  \E t \in T :
    \/ GzCheck(t)
    \/ GzDo(t)
    \/ \E ok \in BOOLEAN : GzFetch(t, ok)
    \/ GzStore(t)
    \/ GzStoreAgain(t)
    \/ GzFinish(t)

\* callers, the flush loop and the zone tasks of its flushes
Next ==
  \/ CallerStep
  \/ LoopStep
  \/ TaskStep
  \/ GetZoneStep(TaskThreads)

Spec == Init /\ [][Next]_vars

\* the same with only the callers that add a record of type A to Z1
ZoneCallers ==
  {c \in Callers : /\ ActionOf(c).ZoneName = Z1
                   /\ ActionOf(c).Action = <<"ADD">>
                   /\ ActionOf(c).RecordType = TypeA}

NextZone ==
  \/ \E c \in ZoneCallers : Enqueue(c) \/ RecvReturn(c) \/ RecvError(c)
  \/ LoopStep
  \/ TaskStep
  \/ GetZoneStep(TaskThreads)

SpecZone == Init /\ [][NextZone]_vars

\* one caller, the flush loop with its stop case, and the callers of Stop
StopStep == \E s \in Stoppers : StopBegin(s) \/ StopClose(s) \/ StopSkip(s)

NextStop ==
  \/ Enqueue(1) \/ RecvReturn(1) \/ RecvError(1)
  \/ LoopStep
  \/ LoopStop
  \/ StopStep
  \/ TaskStep
  \/ GetZoneStep(TaskThreads)

SpecStop == Init /\ [][NextStop]_vars

\* the same under fair scheduling: the loop, the zone tasks, the zone fetches
\* and the callers' receives are goroutines that the scheduler runs whenever
\* they can run; the timer expires; the backend answers every request, with
\* at most MaxConflicts conflicts and MaxPending PENDING answers per zone.
\* Nothing obliges anyone to call PerformRecordAction or Stop.
SpecLive ==
  /\ Init
  /\ [][NextStop]_vars
  /\ WF_vars(TimerExpire)
  /\ WF_vars(LoopTrigger)
  /\ WF_vars(LoopTimer)
  /\ WF_vars(LoopWait)
  /\ WF_vars(LoopClear)
  /\ WF_vars(LoopStop)
  /\ \A z \in Zones : WF_vars(\E resp \in PostResponses \ {"OPEN_ZONE_EDITS"} : TaskSubmit(z, resp))
  /\ \A z \in Zones : WF_vars(\E resp \in StatusResponses \ {"PENDING"} : TaskPoll(z, resp))
  /\ \A z \in Zones : WF_vars(TaskInvalidate(z) \/ TaskPurge(z) \/ TaskGotZone(z))
  /\ \A z \in Zones : WF_vars(\E recordType \in DOMAIN recordsByType[z] : TaskRoute(z, recordType))
  /\ WF_vars(GetZoneStep(TaskThreads))
  /\ WF_vars(RecvReturn(1) \/ RecvError(1))

\* SpecLive, with the goroutine of a Stop call running on to its close, and
\* with the loop's select fair to its stop case: Go's select chooses among
\* its ready cases at random, so a case that is ready at infinitely many
\* selects is chosen at one of them.
SpecLiveStop ==
  /\ SpecLive
  /\ WF_vars(\E s \in Stoppers : StopClose(s))
  /\ SF_vars(LoopStop)

\* the callers of zone Z1, the flush loop with its stop case, and the
\* callers of Stop
NextErr ==
  \/ NextZone
  \/ LoopStop
  \/ StopStep

SpecErr == Init /\ [][NextErr]_vars

\* a caller that adds a record to Z1 and a caller that purges one from Z1
MixedCallers == {1, 4}

NextPurge ==
  \/ \E c \in MixedCallers : Enqueue(c) \/ RecvReturn(c) \/ RecvError(c)
  \/ LoopStep
  \/ TaskStep
  \/ GetZoneStep(TaskThreads)

SpecPurge == Init /\ [][NextPurge]_vars

\* a caller that adds a record of type A to Z1, one that adds to Z1 a record
\* of a type that is not supported, and one that purges a record from Z2
TypedCallers == {1, 3, 5}

NextType ==
  \/ \E c \in TypedCallers : Enqueue(c) \/ RecvReturn(c) \/ RecvError(c)
  \/ LoopStep
  \/ TaskStep
  \/ GetZoneStep(TaskThreads)

SpecType == Init /\ [][NextType]_vars

\* two callers that add to Z2, one of them a record whose key holds a colon
ColonCallers == {6, 7}

NextColon ==
  \/ \E c \in ColonCallers : Enqueue(c) \/ RecvReturn(c) \/ RecvError(c)
  \/ LoopStep
  \/ TaskStep
  \/ GetZoneStep(TaskThreads)

SpecColon == Init /\ [][NextColon]_vars

\* one caller of zone Z1 and one of zone Z2, where the backend answers
\* every submission for Z1 with OPEN_ZONE_EDITS or 201 and every status
\* request for Z1 with PENDING: the goroutine of Z1 never leaves editZone
\* and waitForZoneEdits
PairCallers == {1, 6}

TaskStepOf(z) ==
  \/ \E resp \in PostResponses : TaskSubmit(z, resp)
  \/ \E resp \in StatusResponses : TaskPoll(z, resp)
  \/ TaskInvalidate(z)
  \/ TaskPurge(z)
  \/ TaskGotZone(z)
  \/ \E recordType \in DOMAIN recordsByType[z] : TaskRoute(z, recordType)

TaskStuck(z) ==
  \/ \E resp \in {"201", "OPEN_ZONE_EDITS"} : TaskSubmit(z, resp)
  \/ TaskPoll(z, "PENDING")

NextPair ==
  \/ \E c \in PairCallers : Enqueue(c) \/ RecvReturn(c) \/ RecvError(c)
  \/ LoopStep
  \/ TaskStuck(Z1)
  \/ TaskStepOf(Z2)
  \/ GetZoneStep({TaskThread(Z2)})

SpecPair == Init /\ [][NextPair]_vars

\* the same where the scheduler runs the goroutine of zone Z2 whenever it can
\* run and the backend answers its requests, with at most MaxConflicts
\* conflicts and MaxPending PENDING answers; nothing is assumed of the
\* goroutine of zone Z1
SpecPairLive ==
  /\ SpecPair
  /\ WF_vars(\E resp \in PostResponses \ {"OPEN_ZONE_EDITS"} : TaskSubmit(Z2, resp))
  /\ WF_vars(\E resp \in StatusResponses \ {"PENDING"} : TaskPoll(Z2, resp))
  /\ WF_vars(TaskInvalidate(Z2) \/ TaskPurge(Z2) \/ TaskGotZone(Z2))
  /\ WF_vars(\E recordType \in DOMAIN recordsByType[Z2] : TaskRoute(Z2, recordType))
  /\ WF_vars(GetZoneStep({TaskThread(Z2)}))

\* the goroutines of the client at the level of their mutex calls
SpecLocks == Init /\ [][LockStep]_vars

\* readers of GetZone alone, the cache empty at the start
NextGet ==
  \/ \E r \in Readers : ReaderGetZone(r) \/ ReaderReturn(r)
  \/ GetZoneStep(Readers)

SpecGet == Init /\ [][NextGet]_vars

\* one caller whose record is added to Z1 by a flush of a healthy backend,
\* and readers of Z1 through GetZone and FetchZone
NextCache ==
  \/ Enqueue(1) \/ RecvReturn(1) \/ RecvError(1)
  \/ LoopStep
  \/ TaskSubmit(Z1, "201")
  \/ TaskPoll(Z1, "COMPLETED")
  \/ TaskInvalidate(Z1)
  \/ TaskPurge(Z1)
  \/ TaskGotZone(Z1)
  \/ TaskRoute(Z1, TypeA)
  \/ \E r \in Readers : ReaderGetZone(r) \/ ReaderFetchZone(r) \/ ReaderReturn(r)
  \/ GetZoneStep(Threads)

SpecCache == Init /\ [][NextCache]_vars

\* ------------------------------------------------------------------ claims

Registered(c) ==
  \/ IdOf(ActionOf(c)) \in DOMAIN returnChannels /\ returnChannels[IdOf(ActionOf(c))] = c
  \/ IdOf(ActionOf(c)) \in DOMAIN errorChannels /\ errorChannels[IdOf(ActionOf(c))] = c

\* the callers whose action is in the batch of the flush in progress
InBatch(c) ==
  /\ callerPc[c] # "idle"
  /\ \E i \in 1..Len(payload[ActionOf(c).ZoneName]) :
       payload[ActionOf(c).ZoneName][i] = ZoneEditOf(ActionOf(c))

\* C1: for every correlation key that enqueue registered, exactly one value
\* is written to its result slot or its error slot: never two (one on each
\* or two on one), and one by the time the flushes have taken the key out
\* of the maps.
C1_WrittenExactlyOnce ==
  \A c \in Callers :
    /\ retWrites[c] + errWrites[c] <= 1
    /\ (callerPc[c] # "idle" /\ ~Registered(c)) => retWrites[c] + errWrites[c] = 1

\* C2: a flush removes from the queue, and closes the slots of, only the
\* actions it submitted: when its clear() runs, every queued action is in
\* the batch that this flush grouped at its start.
C2_ClearsOnlySubmitted ==
  [][(loopPc = "clear" /\ loopPc' = "select") =>
       \A i \in 1..Len(recordActionQueue) :
         \E j \in 1..Len(payload[recordActionQueue[i].ZoneName]) :
           payload[recordActionQueue[i].ZoneName][j] = ZoneEditOf(recordActionQueue[i])]_vars

\* C3: a GetZone(Z) call made after a flush observed COMPLETED for Z and
\* invalidated Z returns a snapshot fetched after that edit completed, also
\* when a reader's GetZone(Z) or FetchZone(Z) was in flight at the
\* invalidation.
C3_FreshAfterInvalidate ==
  \A t \in Threads :
    (gzPc[t] = "ret" /\ gzSnap[t].kind = "zone") => gzSnap[t].ver >= gzIssued[t].inv

\* C4: when all N readers called GetZone(Z) before any fetch of Z was made
\* (no entry cached) and every fetch succeeded, exactly one fetch was made
\* and all N got its result.
C4_OneFetch ==
  (\A r \in Readers : gzPc[r] = "done" /\ gzIssued[r].f = 0 /\ gzSnap[r].kind = "zone") =>
     /\ fetches[Z1] = 1
     /\ \A r1, r2 \in Readers : gzSnap[r1] = gzSnap[r2]

\* an error that a caller has been sent or has returned
ErrorsOf(c) ==
  (IF errCh[c].buf # Empty THEN {errCh[c].buf[1]} ELSE {})
  \cup (IF callerResult[c].kind = "error" THEN {callerResult[c].err} ELSE {})

ZoneFailures == {"failed to edit zone", "failed to wait for zone edits"}

\* the edit of the zone completed and the snapshot that its lookups need
\* was fetched
BatchSucceeded(z) ==
  /\ taskOutcome[z] = "completed"
  /\ \/ taskZone[z].kind = "zone"
     \/ \A i \in 1..Len(payload[z]) : payload[z][i].Action = <<"PURGE">>

\* C5: once the tasks of a flush are joined, with the batch of some zone Z
\* failed: a caller of another zone Y has been sent no error of Z's failure,
\* and when the batch of Y succeeded it has been sent its result and no error.
C5_ZoneIsolation ==
  (loopPc = "clear" /\ \E z \in Zones : taskOutcome[z] = "failed") =>
    \A c \in Callers :
      InBatch(c) =>
        /\ \A e \in ErrorsOf(c) : e.msg \in ZoneFailures => e.zone = ActionOf(c).ZoneName
        /\ (BatchSucceeded(ActionOf(c).ZoneName)
              /\ \E z \in Zones : z # ActionOf(c).ZoneName /\ taskOutcome[z] = "failed")
             => (retWrites[c] = 1 /\ errWrites[c] = 0)

\* C6: a caller blocked in PerformRecordAction eventually returns (with a
\* record, a nil record or an error), under fair scheduling and a backend
\* that answers.
C6_CallerReturns == (callerPc[1] = "waiting") ~> (callerPc[1] = "done")

C8_OneBatchPerZone ==
  loopPc = "wait" =>
    \A z \in Zones :
      /\ \A i \in 1..Len(recordActionQueue) :
           recordActionQueue[i].ZoneName = z =>
             \E j \in 1..Len(payload[z]) : payload[z][j] = ZoneEditOf(recordActionQueue[i])
      /\ Len(payload[z]) =
           Cardinality({i \in 1..Len(recordActionQueue) : recordActionQueue[i].ZoneName = z})
      /\ posts[z] <= 1
      /\ taskPc[z] = "poll" => (posts[z] = 1 /\ openEdits[z] = payload[z])
      /\ taskOutcome[z] = "completed" => posts[z] = 1

\* two actions queued for Z1 in one idle window are in the one edit that the
\* backend accepted
C8_Witness ==
  /\ loopPc = "wait"
  /\ taskPc[Z1] = "poll"
  /\ Len(openEdits[Z1]) = 2
  /\ posts[Z1] = 1

\* C9: however many times Stop is called, together or one after the other,
\* the stop channel is closed at most once, is closed once a call has
\* returned, and no call waits for anything but the one close in progress.
C9_StopOnce ==
  /\ flushLoopStopChan <= 1
  /\ \A s \in Stoppers : stopPc[s] = "done" => flushLoopStopChan = 1
  /\ stopOnce = "running" => \E s \in Stoppers : stopPc[s] = "closing"
  /\ Cardinality({s \in Stoppers : stopPc[s] = "closing"}) <= 1

\* every caller of Stop has returned
C9_Witness ==
  /\ \A s \in Stoppers : stopPc[s] = "done"
  /\ flushLoopStopChan = 1

\* C10: once a call of Stop has returned, the loop starts no flush.
C10_NoFlushAfterStop ==
  [][(\E s \in Stoppers : stopPc[s] = "done") => ~(loopPc = "select" /\ loopPc' = "wait")]_vars

\* C11: after Stop is requested the loop eventually is Stopped, and a
\* Stopped loop stays Stopped and starts no flush: no batch is grouped, no
\* zone goroutine started, the queue lock not taken, whatever triggers are
\* sent afterwards.
C11_StopReached ==
  /\ (\E s \in Stoppers : stopPc[s] # "idle") ~> (loopPc = "stopped")
  /\ [][loopPc = "stopped" =>
          /\ loopPc' = "stopped"
          /\ UNCHANGED <<batchMutex, payload, taskPc, posts, flushTimer>>]_vars

\* the loop is Stopped and a trigger was sent to it afterwards
C11_Witness ==
  /\ loopPc = "stopped"
  /\ flushTrigger > 0
  /\ flushTimer = "stopped"
  /\ \E s \in Stoppers : stopPc[s] = "done"

\* C12: a flush that returned an error leaves the loop as any flush does:
\* the step that ends the flush takes the loop to Idle with a new timer
\* running, and in Idle, with that error returned, the timer case starts
\* the next flush when the timer has expired and the stop case ends the loop
\* when Stop has closed the channel.
C12_LoopSurvivesError ==
  [][/\ (loopPc = "clear" /\ loopPc' # "clear") => (loopPc' = "select" /\ flushTimer' = "running")
     /\ (loopPc' = "select" /\ flushErr' # Empty) =>
          /\ (flushTimer' = "fired" /\ batchMutex' = "free") => (ENABLED LoopTimer)'
          /\ flushLoopStopChan' > 0 => (ENABLED LoopStop)'
          /\ flushTimer' = "running" => (ENABLED TimerExpire)']_vars

\* a flush returned an error, and the loop went on to observe a Stop
C12_Witness ==
  /\ loopPc = "stopped"
  /\ flushErr # Empty
  /\ recordActionQueue = Empty

\* C13: a submission rejected with OPEN_ZONE_EDITS is retried and no error
\* is sent to any caller for the rejection; and the caller whose zone had
\* such a conflict eventually returns with its record, unless an error was
\* sent to it because the backend then failed the submission, the edit or
\* the fetch of the zone.
C13_ConflictThenRecord ==
  /\ [][\A z \in Zones : conflicts'[z] > conflicts[z] =>
           /\ taskPc'[z] = "submit"
           /\ UNCHANGED <<errCh, errWrites, errChan, errorChannels, returnChannels>>]_vars
  /\ (taskPc[Z1] = "submit" /\ conflicts[Z1] > 0 /\ InBatch(1)) ~>
       /\ callerPc[1] = "done"
       /\ callerResult[1].kind = "ok" \/ errWrites[1] > 0

RecordOf(ra) == ZoneRecord(ra.RecordType, ra.NewKey, ra.NewValue)

\* C15: when the tasks of a flush are joined, every ADD or EDIT action of
\* the batch whose record is in the post-edit snapshot that the task fetched
\* has had a record written to the result slot of its own request, also
\* when two actions of the batch have the same record type and key.
C15_FoundRecordsRouted ==
  loopPc = "clear" =>
    \A c \in Callers :
      (/\ InBatch(c)
       /\ ActionOf(c).Action \in {<<"ADD">>, <<"EDIT">>}
       /\ taskZone[ActionOf(c).ZoneName].kind = "zone"
       /\ \E i \in 1..Len(taskZone[ActionOf(c).ZoneName].recs) :
            taskZone[ActionOf(c).ZoneName].recs[i] = RecordOf(ActionOf(c)))
      => retWrites[c] = 1

\* the callers whose request is in the error map under a key of the zone
PendingOfZone(z) ==
  {errorChannels[id] : id \in {x \in DOMAIN errorChannels : Split(x)[1] = z}}

\* C16: the step in which the submission or the polling of a zone fails
\* writes one and the same error, which names the zone, to the error slot of
\* every request pending under a key of that zone, takes each of them out of
\* the error map, and writes to no other request.
C16_ZoneErrorFansOut ==
  [][\A z \in Zones :
       (taskOutcome[z] # "failed" /\ taskOutcome'[z] = "failed") =>
         /\ \E e \in {ErrEditZone(z, resp) : resp \in PostResponses}
                  \cup {ErrWaitZone(z, resp) : resp \in StatusResponses} :
              \A c \in PendingOfZone(z) :
                /\ errCh'[c] = [buf |-> <<e>>, closed |-> TRUE, bad |-> FALSE]
                /\ errWrites'[c] = errWrites[c] + 1
         /\ \A id \in DOMAIN errorChannels :
              id \in DOMAIN errorChannels' <=> Split(id)[1] # z
         /\ \A c \in Callers \ PendingOfZone(z) :
              errCh'[c] = errCh[c] /\ errWrites'[c] = errWrites[c]]_vars

\* the batch of Z1 failed with two requests pending: both hold the same
\* error, and the request of Z2 is still pending
C16_Witness ==
  /\ taskOutcome[Z1] = "failed"
  /\ errCh[1].buf # Empty
  /\ errCh[2].buf = errCh[1].buf
  /\ errWrites[1] = 1 /\ errWrites[2] = 1
  /\ PendingOfZone(Z1) = {}
  /\ PendingOfZone(Z2) = {3}

\* C17: when editZones has joined its tasks and built its result, the result
\* of the flush is an error that holds the message of every zone whose
\* submission or polling failed, and is nil only when no zone failed.
C17_FlushReportsZoneFailure ==
  loopPc = "clear" =>
    \A z \in Zones :
      taskOutcome[z] = "failed" =>
        \E i \in 1..Len(flushErr) :
          flushErr[i].msg \in {"failed to edit zone", "failed to wait for zone edits"}
            /\ flushErr[i].zone = z

\* C18: when the tasks of a flush are joined, every ADD or EDIT action of
\* the batch whose key is not among the records of its type in the snapshot
\* that the task looked it up in has had an error written to the error slot
\* of its request.
C18_MissingKeyError ==
  loopPc = "clear" =>
    \A c \in Callers :
      (/\ InBatch(c)
       /\ ActionOf(c).Action \in {<<"ADD">>, <<"EDIT">>}
       /\ taskZone[ActionOf(c).ZoneName].kind = "zone"
       /\ \A i \in 1..Len(taskZone[ActionOf(c).ZoneName].recs) :
            ~(/\ taskZone[ActionOf(c).ZoneName].recs[i].Type = ActionOf(c).RecordType
              /\ taskZone[ActionOf(c).ZoneName].recs[i].Key = KeyId(ActionOf(c))))
      => errWrites[c] = 1

\* C19: in a flush, at most one DELETE is sent for the edit of a zone; once
\* it is sent (the status was FAILED) the task of the zone has ended, the
\* zone has failed, whether the DELETE succeeded or not, the error of the
\* failed edit is written to every request of the batch, and no result is
\* written to any of them.
C19_FailedEditIsTerminal ==
  \A z \in Zones :
    /\ cancels[z] <= 1
    /\ cancels[z] = 1 =>
         /\ taskPc[z] = "done"
         /\ taskOutcome[z] = "failed"
         /\ \A c \in Callers :
              (InBatch(c) /\ ActionOf(c).ZoneName = z) =>
                 /\ retWrites[c] = 0 /\ retCh[c].buf = Empty
                 /\ errWrites[c] = 1
                 /\ \/ callerPc[c] = "done"
                    \/ /\ errCh[c].buf # Empty
                       /\ errCh[c].buf[1].msg = "failed to wait for zone edits"
                       /\ errCh[c].buf[1].cause \in {"FAILED", "FAILED_nocancel"}

\* the edit of Z1 failed and its cancellation failed too: both requests of
\* the batch hold the error, one DELETE was sent
C19_Witness ==
  /\ cancels[Z1] = 1
  /\ InBatch(1) /\ InBatch(2)
  /\ errCh[1].buf # Empty /\ errCh[1].buf[1].cause = "FAILED_nocancel"
  /\ errCh[2].buf = errCh[1].buf
  /\ retWrites[1] = 0 /\ retWrites[2] = 0

\* a zone task of the flush is at a backend call: the POST, the status GET
\* (and the DELETE after it), or the fetch of the zone
InBackendCall(z) ==
  \/ taskPc[z] \in {"submit", "poll"}
  \/ taskPc[z] = "getzone" /\ gzPc[TaskThread(z)] = "fetch"

\* C20: while a zone task of a flush is at a backend call the lock of the
\* queue is free, and a caller that has not yet enqueued can enqueue.
C20_NoLockAcrossCalls ==
  (\E z \in Zones : InBackendCall(z)) =>
     /\ batchMutex = "free"
     /\ \A c \in Callers : callerPc[c] = "idle" => ENABLED Enqueue(c)

\* C21: the step that ends a flush leaves the queue and both slot maps
\* empty and every slot that was still registered closed, by one close; both
\* slots of every caller of the batch are then closed, so that a caller of
\* the batch that still waits has a ready case in its select.
C21_FlushCleansUp ==
  [][(loopPc = "clear" /\ loopPc' = "select") =>
       /\ recordActionQueue' = Empty
       /\ returnChannels' = EmptyMap
       /\ errorChannels' = EmptyMap
       /\ \A id \in DOMAIN returnChannels :
            retCh'[returnChannels[id]].closed /\ ~retCh'[returnChannels[id]].bad
       /\ \A id \in DOMAIN errorChannels :
            errCh'[errorChannels[id]].closed /\ ~errCh'[errorChannels[id]].bad
       /\ \A c \in Callers :
            InBatch(c) =>
              /\ retCh'[c].closed /\ errCh'[c].closed
              /\ callerPc'[c] = "waiting" => (ENABLED (RecvReturn(c) \/ RecvError(c)))']_vars

\* a flush has ended in which the request of caller 1 was in the batch with
\* that of caller 2 and was written nothing: its slots are closed and empty
C21_Witness ==
  /\ loopPc = "select"
  /\ recordActionQueue = Empty
  /\ callerPc[1] = "waiting"
  /\ retWrites[1] = 0 /\ errWrites[1] = 0 /\ retWrites[2] = 1
  /\ retCh[1] = [buf |-> Empty, closed |-> TRUE, bad |-> FALSE]
  /\ errCh[1] = [buf |-> Empty, closed |-> TRUE, bad |-> FALSE]
  /\ \E i \in 1..Len(zoneRecs[Z1]) : zoneRecs[Z1][i] = RecordOf(ActionOf(1))

\* the batch of the zone holds PURGE edits only
PurgeOnly(z) ==
  /\ payload[z] # Empty
  /\ \A i \in 1..Len(payload[z]) : payload[z][i].Action = <<"PURGE">>

\* C22: when the edit of a zone completed, the step that walks the edits
\* writes a nil record to the slot of every PURGE request of the batch; no
\* error is written to such a request in the flush whose edit completed; and
\* a task whose batch holds PURGE edits only ends at that step, with no
\* GetZone call and no fetch.
C22_PurgeNilNoFetch ==
  [][\A c \in Callers :
       LET z == ActionOf(c).ZoneName
       IN  (ActionOf(c).Action = <<"PURGE">> /\ InBatch(c)) =>
             /\ (taskPc[z] = "purge" /\ taskPc'[z] # "purge" /\ retWrites[c] = 0) =>
                  /\ retWrites'[c] = 1
                  /\ retCh'[c] = [buf |-> <<NilRecord>>, closed |-> TRUE, bad |-> FALSE]
             /\ (taskOutcome[z] = "completed" /\ taskOutcome'[z] = "completed") =>
                  errWrites'[c] = errWrites[c]
             /\ (taskPc[z] = "purge" /\ taskPc'[z] # "purge" /\ PurgeOnly(z)) =>
                  /\ taskPc'[z] = "done"
                  /\ UNCHANGED <<fetches, gzPc, gzIssued>>]_vars

\* the positions in the queue of the actions of a zone, and the j-th of them
QueuedFor(z) == {i \in 1..Len(recordActionQueue) : recordActionQueue[i].ZoneName = z}
NthQueuedFor(z, j) ==
  CHOOSE i \in QueuedFor(z) : Cardinality({k \in QueuedFor(z) : k <= i}) = j

\* C23: the step that starts a flush gives every zone that has queued actions
\* one payload and one task, and no other zone any; the payload of a zone
\* holds one edit per queued action of the zone, the j-th edit being that of
\* the j-th action enqueued for the zone, so that every action is in the
\* payload of its own zone, once, and in no other.
C23_GroupedByZoneInOrder ==
  [][(loopPc = "select" /\ loopPc' = "wait") =>
       \A z \in Zones :
         /\ Len(payload'[z]) = Cardinality(QueuedFor(z))
         /\ \A j \in 1..Len(payload'[z]) :
              payload'[z][j] = ZoneEditOf(recordActionQueue[NthQueuedFor(z, j)])
         /\ (taskPc'[z] = "submit") <=> (QueuedFor(z) # {})
         /\ (taskPc'[z] = None) <=> (QueuedFor(z) = {})]_vars

\* a flush started with the queue holding caller 2's action, then the purge
\* of the other zone, then caller 1's action
C23_Witness ==
  /\ loopPc = "wait"
  /\ recordActionQueue = <<ActionOf(2), ActionOf(3), ActionOf(1)>>
  /\ payload[Z1] = <<ZoneEditOf(ActionOf(2)), ZoneEditOf(ActionOf(1))>>
  /\ payload[Z2] = <<ZoneEditOf(ActionOf(3))>>
  /\ taskPc[Z1] = "submit" /\ taskPc[Z2] = "submit"

\* C24: the loop becomes Stopped from Idle only, with no task of a flush
\* alive and the queue lock free; a flush that is waiting for its tasks when
\* the stop channel is closed goes on: its tasks end, they are joined, and
\* the cleanup that follows closes both slots of every caller of the batch
\* and returns the loop to Idle; only then does the loop become Stopped.
C24_FlushOutlivesStop ==
  /\ [][(loopPc # "stopped" /\ loopPc' = "stopped") =>
          /\ loopPc = "select"
          /\ \A z \in Zones : taskPc[z] = None /\ payload[z] = Empty
          /\ batchMutex = "free"]_vars
  /\ [][(flushLoopStopChan > 0 /\ loopPc = "clear" /\ loopPc' # "clear") =>
          /\ loopPc' = "select"
          /\ \A c \in Callers : InBatch(c) => (retCh'[c].closed /\ errCh'[c].closed)]_vars
  /\ (loopPc = "wait" /\ flushLoopStopChan > 0) ~>
       (loopPc = "clear" /\ \A z \in Zones : taskPc[z] \in {None, "done"})
  /\ (loopPc = "wait" /\ flushLoopStopChan > 0) ~> (loopPc = "stopped")

\* the stop channel is closed, the loop is not Stopped, and the task of the
\* flush has run to its end and delivered the caller's record
C24_Witness ==
  /\ flushLoopStopChan = 1
  /\ loopPc = "clear"
  /\ taskPc[Z1] = "done"
  /\ taskOutcome[Z1] = "completed"
  /\ retWrites[1] = 1 /\ errWrites[1] = 0

\* C25: the trigger channel never holds more than one signal; an enqueue
\* is never kept waiting by the channel (a caller that can take the queue
\* lock can enqueue, whatever the channel holds) and leaves one signal in
\* it, a signal sent to a full channel changing nothing of the loop; the
\* loop's receipt of a signal empties the channel and starts no flush; and
\* the flush that starts next takes every action queued so far, however many
\* signals their enqueues sent, with no signal consumed by its start.
C25_TriggersCollapse ==
  /\ [](flushTrigger \in {0, 1})
  /\ [](\A c \in MainCallers :
          (callerPc[c] = "idle" /\ batchMutex = "free") => ENABLED Enqueue(c))
  /\ [][\A c \in Callers :
          (callerPc[c] = "idle" /\ callerPc'[c] = "waiting") =>
             /\ flushTrigger' = 1
             /\ UNCHANGED <<loopPc, flushTimer, payload, taskPc>>]_vars
  /\ [][flushTrigger' < flushTrigger =>
          /\ flushTrigger' = 0
          /\ UNCHANGED <<loopPc, payload, taskPc, posts, batchMutex>>]_vars
  /\ [][(loopPc = "select" /\ loopPc' = "wait") =>
          /\ Len(payload'[Z1]) + Len(payload'[Z2]) = Len(recordActionQueue)
          /\ UNCHANGED flushTrigger]_vars

\* three enqueues sent their signals in one idle window, one signal is in
\* the channel, and the one flush that started holds the three actions
C25_Witness ==
  /\ loopPc = "wait"
  /\ flushTrigger = 1
  /\ Len(recordActionQueue) = 3
  /\ Len(payload[Z1]) = 2 /\ Len(payload[Z2]) = 1
  /\ \A z \in Zones : posts[z] = 0

\* the goroutines that run the fn of GetZone for a zone: from the start of
\* its fetch to the end of the call
FetchingThrough(z) ==
  {t \in Threads : ZoneOfThread(t) = z /\ gzPc[t] \in {"fetch", "store1", "store2", "finish"}}

\* C26: for every zone at most one goroutine runs the fetch of GetZone at a
\* time, it is the one the group has registered, and every goroutine that
\* waits in the group waits for it; a goroutine that waits makes no fetch;
\* and when the call ends, every goroutine that waited for it returns with
\* the snapshot or the error of the one that ran it.
C26_OneFetchInFlight ==
  /\ [](\A z \in Zones :
          /\ Cardinality(FetchingThrough(z)) <= 1
          /\ \A t \in FetchingThrough(z) : zoneGroup[z] = t
          /\ \A u \in Threads :
               (ZoneOfThread(u) = z /\ gzPc[u] = "wait") => gzCall[u] \in FetchingThrough(z))
  /\ [][\A u \in Threads :
          gzPc[u] = "wait" =>
            /\ gzPc'[u] \in {"wait", "ret"}
            /\ gzPc'[u] = "ret" =>
                 /\ gzPc[gzCall[u]] = "finish" /\ gzPc'[gzCall[u]] = "ret"
                 /\ gzSnap'[u] = gzSnap'[gzCall[u]]
                 /\ fetches' = fetches]_vars

\* both readers and the task of the flush have returned from GetZone with
\* the error of the one fetch that was made after the edit
C26_Witness ==
  /\ \A r \in Readers : gzPc[r] = "ret" /\ gzSnap[r] = ZoneErr
  /\ gzPc[TaskThread(Z1)] = "ret" /\ gzSnap[TaskThread(Z1)] = ZoneErr
  /\ fetches[Z1] = 1

\* C27: a GetZone call that finds an entry for its zone at its look in the
\* cache returns that entry and makes no fetch; the invalidation of a zone
\* leaves no entry for it; and a GetZone call that finds no entry, with no
\* call in flight in the group, registers its own call, makes one fetch, and
\* stores the snapshot it got in the cache before it returns it.
C27_HitOrFetchAndStore ==
  [][/\ \A t \in Threads :
          LET z == ZoneOfThread(t)
          IN  /\ (gzPc[t] = "check" /\ gzPc'[t] # "check") =>
                   IF z \in DOMAIN zoneCache
                   THEN /\ gzPc'[t] = "ret"
                        /\ gzSnap'[t] = zoneCache[z]
                        /\ UNCHANGED <<fetches, zoneCache>>
                   ELSE gzPc'[t] = "do" /\ UNCHANGED <<fetches, zoneCache>>
              /\ (gzPc[t] = "do" /\ gzPc'[t] # "do" /\ zoneGroup[z] = 0) =>
                   gzPc'[t] = "fetch" /\ zoneGroup'[z] = t
              /\ (gzPc[t] = "fetch" /\ gzPc'[t] # "fetch") =>
                   /\ fetches'[z] = fetches[z] + 1
                   /\ gzPc'[t] = (IF gzSnap'[t].kind = "zone" THEN "store1" ELSE "finish")
              /\ (gzPc[t] = "store1" /\ gzPc'[t] # "store1") =>
                   /\ z \in DOMAIN zoneCache' /\ zoneCache'[z] = gzSnap[t]
                   /\ gzPc'[t] = "store2"
              /\ (gzPc[t] = "store2" /\ gzPc'[t] # "store2") =>
                   /\ z \in DOMAIN zoneCache' /\ zoneCache'[z] = gzSnap[t]
                   /\ gzPc'[t] = "finish"
              /\ (gzPc[t] = "finish" /\ gzPc'[t] # "finish") =>
                   gzPc'[t] = "ret" /\ gzSnap'[t] = gzSnap[t]
     /\ \A z \in Zones :
          (taskPc[z] = "invalidate" /\ taskPc'[z] # "invalidate") => z \notin DOMAIN zoneCache']_vars

\* a reader that called GetZone after the invalidation of Z1 returns the
\* entry that a fetch made after the invalidation stored, with no fetch made
\* since its call
C27_Witness ==
  /\ invalidatedVer[Z1] = 1
  /\ Z1 \in DOMAIN zoneCache
  /\ zoneCache[Z1].ver = 1
  /\ \E r \in Readers :
       /\ gzPc[r] = "ret"
       /\ gzIssued[r] = [inv |-> 1, f |-> fetches[Z1]]
       /\ gzSnap[r] = zoneCache[Z1]

\* the callers of a zone to whose slots a step writes
WrittenTo(z) ==
  {c \in Callers : /\ ActionOf(c).ZoneName = z
                   /\ retWrites'[c] # retWrites[c] \/ errWrites'[c] # errWrites[c]}

\* C28: the step at which a task observes COMPLETED routes nothing and
\* fetches nothing and is followed by the invalidation, which leaves no
\* entry for the zone in the cache and routes and fetches nothing; and in a
\* task whose edit completed, every step that writes to a slot of a request
\* of the zone, that calls GetZone for the task or that fetches the zone is
\* taken after the invalidation that followed this edit.
C28_InvalidateBeforeRouting ==
  [][\A z \in Zones :
       /\ (taskOutcome[z] # "completed" /\ taskOutcome'[z] = "completed") =>
            /\ taskPc[z] = "poll" /\ taskPc'[z] = "invalidate"
            /\ invalidatedVer[z] # zoneVer'[z]
            /\ WrittenTo(z) = {}
            /\ UNCHANGED <<fetches, gzPc>>
       /\ (taskPc[z] = "invalidate" /\ taskPc'[z] # "invalidate") =>
            /\ z \notin DOMAIN zoneCache'
            /\ taskPc'[z] = "purge"
            /\ invalidatedVer'[z] = zoneVer[z]
            /\ WrittenTo(z) = {}
            /\ UNCHANGED <<fetches, gzPc>>
       /\ (/\ taskOutcome[z] = "completed"
           /\ \/ WrittenTo(z) # {}
              \/ fetches'[z] # fetches[z]
              \/ gzPc[TaskThread(z)] = None /\ gzPc'[TaskThread(z)] # None) =>
            /\ taskPc[z] \in {"purge", "getzone", "route"}
            /\ invalidatedVer[z] = zoneVer[z]]_vars

\* the first flush added caller 1's record and cached the zone it fetched;
\* the second flush, of the purge, completed, removed that entry and then
\* routed the nil record
C28_Witness ==
  /\ zoneVer[Z1] = 2
  /\ invalidatedVer[Z1] = 2
  /\ retWrites[1] = 1 /\ retWrites[4] = 1
  /\ Z1 \notin DOMAIN zoneCache
  /\ taskPc[Z1] = "done"

\* the request of a caller is registered and nothing was written to it
StillPending(c) ==
  /\ IdOf(ActionOf(c)) \in DOMAIN errorChannels
  /\ errorChannels[IdOf(ActionOf(c))] = c
  /\ retWrites[c] = 0 /\ errWrites[c] = 0

\* C29: the step of a zone task that takes up a record type that
\* GetRecordsByType does not know writes the 'unsupported record type' error
\* of that type to the error slot of every still-pending request of the
\* zone and the type, writes nothing to any request of another type or of
\* another zone, and ends the task.
C29_UnsupportedTypeFansOut ==
  [][\A z \in Zones :
       \A rt \in DOMAIN recordsByType[z] :
         (taskPc[z] = "route" /\ rt \notin SupportedTypes /\ rt \notin DOMAIN recordsByType'[z]) =>
           /\ taskPc'[z] = "done"
           /\ \A c \in Callers :
                IF ActionOf(c).ZoneName = z /\ ActionOf(c).RecordType = rt
                THEN StillPending(c) =>
                       /\ errWrites'[c] = 1
                       /\ errCh'[c] = [buf |-> <<ErrUnsupported(rt)>>, closed |-> TRUE, bad |-> FALSE]
                       /\ retCh'[c] = retCh[c]
                ELSE /\ errWrites'[c] = errWrites[c] /\ errCh'[c] = errCh[c]
                     /\ retWrites'[c] = retWrites[c] /\ retCh'[c] = retCh[c]]_vars

\* the task of Z1 took up the unsupported type first: its request has the
\* error, the request of type A of the same zone and the request of the
\* other zone are still pending and were sent nothing
C29_Witness ==
  /\ taskPc[Z1] = "done"
  /\ taskOutcome[Z1] = "completed"
  /\ errCh[5] = [buf |-> <<ErrUnsupported(TypeSRV)>>, closed |-> TRUE, bad |-> FALSE]
  /\ StillPending(1) /\ InBatch(1) /\ callerPc[1] = "waiting"
  /\ StillPending(3) /\ InBatch(3) /\ taskPc[Z2] = "submit"

\* C30: the step at which the submission of a zone fails (a transport
\* error, or an answer that is neither 201 nor OPEN_ZONE_EDITS) is the last
\* of the task: the POST is not accepted and leaves no edit open, the error
\* 'failed to edit zone' is written to every registered request of the zone,
\* the task ends, and from then on to the cleanup of the flush no POST, no
\* status request and no cancellation is made for the zone.
C30_FailedSubmissionIsTerminal ==
  [][\A z \in Zones :
       /\ (taskPc[z] = "submit" /\ taskOutcome'[z] = "failed") =>
            /\ taskPc'[z] = "done"
            /\ UNCHANGED <<posts, openEdits, zoneRecs, zoneVer, pendings, cancels, fetches>>
            /\ \A c \in Callers :
                 (ActionOf(c).ZoneName = z /\ StillPending(c)) =>
                   /\ errWrites'[c] = 1
                   /\ errCh'[c].closed /\ ~errCh'[c].bad
                   /\ errCh'[c].buf[1].msg = "failed to edit zone"
                   /\ errCh'[c].buf[1].zone = z
            /\ ~(ENABLED (\E resp \in PostResponses : TaskSubmit(z, resp)))'
            /\ ~(ENABLED (\E resp \in StatusResponses : TaskPoll(z, resp)))'
       /\ (taskPc[z] = "done" /\ taskOutcome[z] = "failed" /\ posts[z] = 0) =>
            \/ taskPc'[z] = "done" /\
                 UNCHANGED <<posts, openEdits, zoneRecs, zoneVer, pendings, cancels>>
            \/ taskPc'[z] = None /\ loopPc = "clear" /\ loopPc' = "select"]_vars

\* the one POST of the batch of Z1 met a transport error: both requests of
\* the zone have the error, nothing was accepted, polled or cancelled
C30_Witness ==
  /\ taskPc[Z1] = "done"
  /\ taskOutcome[Z1] = "failed"
  /\ Len(payload[Z1]) = 2
  /\ posts[Z1] = 0 /\ cancels[Z1] = 0 /\ pendings[Z1] = 0 /\ openEdits[Z1] = Empty
  /\ \A c \in ZoneCallers :
       errCh[c] = [buf |-> <<ErrEditZone(Z1, "transport")>>, closed |-> TRUE, bad |-> FALSE]

\* C31: once a record or a nil record has been written to the result slot
\* of a request, no step writes an error to the error slot of that request,
\* and the error slot still holds no error.
C31_NoErrorAfterResult ==
  [][\A c \in Callers :
       retWrites[c] > 0 =>
         /\ errWrites'[c] = errWrites[c]
         /\ errCh'[c].buf = errCh[c].buf]_vars

\* C32: a caller to whose result slot a flush wrote a result, and to whose
\* error slot nothing was written, returns that result and no error,
\* whether it receives before or after the cleanup of the flush.
C32_ResultIsReturned ==
  [][\A c \in Callers :
       (/\ callerPc[c] = "waiting" /\ callerPc'[c] = "done"
        /\ retWrites[c] = 1 /\ errWrites[c] = 0
        /\ retCh[c].buf # Empty) =>
          callerResult'[c] = [kind |-> "ok", record |-> retCh[c].buf[1]]]_vars

\* C33: no slot is closed twice, none is written to once it is closed, and
\* no write finds its slot full (a write that would block the flush): a
\* slot holds at most one value, at most one value was ever written to it,
\* and a slot that is still in a map is open and empty.
C33_SlotsUsedOnce ==
  /\ \A c \in Callers :
       /\ ~retCh[c].bad /\ ~errCh[c].bad
       /\ Len(retCh[c].buf) <= 1 /\ Len(errCh[c].buf) <= 1
       /\ retWrites[c] <= 1 /\ errWrites[c] <= 1
  /\ \A id \in DOMAIN returnChannels : retCh[returnChannels[id]] = NewChan
  /\ \A id \in DOMAIN errorChannels : errCh[errorChannels[id]] = NewChan

\* after a flush: one request of the pair was written its record, the zone
\* error of the other zone was written to its request, and the cleanup
\* closed the slots that were left, each slot closed once
C33_Witness ==
  /\ loopPc = "select"
  /\ recordActionQueue = Empty
  /\ retWrites[2] = 1 /\ retWrites[1] = 0 /\ errWrites[1] = 0
  /\ errWrites[3] = 1
  /\ \A c \in MainCallers :
       /\ retCh[c].closed /\ ~retCh[c].bad
       /\ errCh[c].closed /\ ~errCh[c].bad

\* C34: a record in the result slot of a request, or returned to its
\* caller, is the request's own: nil for a PURGE, and for an ADD or EDIT the
\* record of the action's type, new key and new value.
C34_RecordBelongsToRequest ==
  \A c \in Callers :
    LET own == IF ActionOf(c).Action = <<"PURGE">> THEN NilRecord
               ELSE RecordPtr(RecordOf(ActionOf(c)))
    IN  /\ retCh[c].buf # Empty => retCh[c].buf[1] = own
        /\ callerResult[c].kind = "ok" => callerResult[c].record = own

\* C35: a step writes a record or a nil record to the result slot of a
\* request only in a flush whose batch of the zone holds the request's
\* action, was accepted by the backend and was reported COMPLETED; and a
\* caller returns a success only when such a write was made to its slot.
C35_ResultOnlyAfterCompleted ==
  [][\A c \in Callers :
       LET z == ActionOf(c).ZoneName
       IN  /\ retWrites'[c] > retWrites[c] =>
                /\ InBatch(c)
                /\ posts[z] = 1
                /\ taskOutcome[z] = "completed"
                /\ openEdits[z] = Empty
                /\ taskPc[z] \in {"purge", "route"}
           /\ (callerResult[c].kind # "ok" /\ callerResult'[c].kind = "ok") =>
                retWrites[c] = 1]_vars

\* the edit of Z1 completed: the purge was written its nil record and the
\* request of the added record its record, and neither caller has returned
C35_Witness ==
  /\ loopPc = "wait"
  /\ taskOutcome[Z1] = "completed" /\ posts[Z1] = 1
  /\ retCh[4].buf = <<NilRecord>>
  /\ retCh[1].buf = <<RecordPtr(RecordOf(ActionOf(1)))>>
  /\ callerPc[1] = "waiting" /\ callerPc[4] = "waiting"

\* the goroutines that keep goroutine t from making its next call: the
\* holders of the mutex it asks for, or the zone goroutines it waits for
WaitsFor(t) ==
  IF ~HasNext(t) THEN {}
  ELSE CASE NextOp(t).op = "lock" ->
              {u \in LockThreads \ {t} : NextOp(t).m \in Held(u)}
         [] NextOp(t).op = "rlock" ->
              {u \in LockThreads \ {t} : NextOp(t).m \in HeldExclusive(u)}
         [] NextOp(t).op = "join" -> {u \in LockTasks : HasNext(u)}
         [] OTHER -> {}

\* C36: a goroutine that is about to take the queue lock holds no lock, one
\* that is about to take the slot-map lock holds at most the queue lock, and
\* one that is about to take the cache lock, for reading or for writing,
\* holds no lock; and there is never a set of goroutines each of which waits
\* for a lock held by, or for the return of, another goroutine of the set.
C36_LockOrder ==
  /\ \A t \in LockThreads :
       (HasNext(t) /\ NextOp(t).op \in {"lock", "rlock"}) =>
         /\ NextOp(t).m = "batch" => Held(t) = {}
         /\ NextOp(t).m = "ret" => Held(t) \subseteq {"batch"}
         /\ NextOp(t).m = "cache" => Held(t) = {}
  /\ \A m \in {"batch", "ret", "cache"} :
       Cardinality({t \in LockThreads : m \in HeldExclusive(t)}) <= 1
  /\ ~\E D \in SUBSET LockThreads : D # {} /\ \A t \in D : WaitsFor(t) \cap D # {}

\* a flush holds the queue lock and waits for its zone goroutines; one of
\* them holds the slot-map lock, the other the cache lock; an enqueue waits
\* for the queue lock and a GetZone call for the cache lock
C36_Witness ==
  /\ Held("flush") = {"batch"} /\ NextOp("flush").op = "join"
  /\ Held("task1") = {"ret"}
  /\ Held("task2") = {"cache"}
  /\ lockPc["enqueue1"] = 0
  /\ lockPc["getzone"] = 2

\* C37: once the goroutine of zone Z2 has been started with the request of
\* caller 6 in its payload, it comes to the end of its routing, whatever the
\* goroutine of zone Z1 does: also when that one is rejected with
\* OPEN_ZONE_EDITS, or told PENDING, for ever.
C37_OtherZoneIsRouted ==
  (taskPc[Z2] = "submit" /\ InBatch(6)) ~> (taskPc[Z2] = "done")

\* the record of caller 6 has been routed while the submission of zone Z1
\* has been rejected with OPEN_ZONE_EDITS and has not been accepted yet
C37_Witness ==
  /\ retWrites[6] = 1
  /\ retCh[6].buf # Empty
  /\ InBatch(1)
  /\ taskPc[Z1] = "submit"
  /\ conflicts[Z1] = MaxConflicts
  /\ posts[Z1] = 0

\* C38: a zone goroutine runs only while the loop is inside editZones, waiting
\* for its goroutines with the queue lock held; the loop goes on to the
\* cleanup only when every goroutine of the flush has returned; and
\* goroutines are started only by the loop at its select, when none of the
\* flush before is left, its cleanup done.
C38_OneFlushAtATime ==
  [][/\ (\E z \in Zones : taskPc[z] \notin {None, "done"}) =>
          (loopPc = "wait" /\ batchMutex = "flush")
     /\ (loopPc # "clear" /\ loopPc' = "clear") =>
          (loopPc = "wait" /\ \A z \in Zones : taskPc[z] \in {None, "done"})
     /\ (\E z \in Zones : taskPc[z] # "submit" /\ taskPc'[z] = "submit") =>
          /\ loopPc = "select" /\ loopPc' = "wait"
          /\ \A z \in Zones : taskPc[z] = None /\ payload[z] = Empty
          /\ \A t \in TaskThreads : gzPc[t] = "none"]_vars

\* a second flush is under way, with the request of caller 3, after the
\* flush that served caller 2 has been cleaned up
C38_Witness ==
  /\ loopPc = "wait"
  /\ taskPc[Z2] = "poll"
  /\ taskPc[Z1] = None
  /\ InBatch(3)
  /\ callerPc[2] = "done"
  /\ callerResult[2].kind = "ok"

\* the entry of zone z in the cache is the same before and after the step
SameEntry(z) ==
  /\ (z \in DOMAIN zoneCache) = (z \in DOMAIN zoneCache')
  /\ z \in DOMAIN zoneCache => zoneCache'[z] = zoneCache[z]

\* C39: a step of a zone goroutine in its submission or its polling, failing
\* or not, leaves the cache as it is, and so does every later step of a
\* goroutine that failed there; an entry disappears from the cache only in
\* the invalidation step of the goroutine of its own zone, whose edit was
\* completed, and that step leaves the entries of the other zones as they are.
C39_CacheFrame ==
  [][\A z \in Zones :
       /\ (taskPc[z] \in {"submit", "poll"} /\ <<taskPc[z], conflicts[z], pendings[z]>>' #
                                                <<taskPc[z], conflicts[z], pendings[z]>>) =>
            zoneCache' = zoneCache
       /\ taskOutcome[z] = "failed" => SameEntry(z)
       /\ (z \in DOMAIN zoneCache /\ z \notin DOMAIN zoneCache') =>
            /\ taskPc[z] = "invalidate" /\ taskPc'[z] = "purge"
            /\ taskOutcome[z] = "completed"
            /\ \A y \in Zones \ {z} : SameEntry(y)
       /\ (taskPc[z] = "invalidate" /\ taskPc'[z] = "purge") =>
            \A y \in Zones \ {z} : SameEntry(y)]_vars

\* the goroutine of zone Z2 has completed its edit and invalidated its zone
\* in a flush of its own, and the entry of zone Z1, stored by a flush before,
\* is in the cache
C39_Witness ==
  /\ Z1 \in DOMAIN zoneCache
  /\ loopPc = "wait"
  /\ taskPc[Z1] = None
  /\ taskPc[Z2] = "done"
  /\ taskOutcome[Z2] = "completed"

====
